---- MODULE Spec2Model ----
(***************************************************************************)
(* Model of the pones-6502 processor core (src/pones-6502/src/cpu.rs).     *)
(* The core is a record of registers plus a bus; step() fetches one       *)
(* opcode, resolves its addressing mode and runs its handler.              *)
(***************************************************************************)
EXTENDS Integers, Naturals, Sequences, FiniteSets, TLC

VARIABLES a, x, y, status, sp, pc, mem, log, panic, steps, limit, hist, start, reg_state,
          bus

vars == <<a, x, y, status, sp, pc, mem, log, panic, steps, limit, hist, start, reg_state,
          bus>>

(* ---------------- constants of cpu.rs ---------------- *)
STACK_START == 256
IRQ_BRK_VECTOR == 65534
RESET_VECTOR == 65532
NMI_VECTOR == 65530

Carry == 0
Zero == 1
InterruptDisable == 2
Decimal == 3
Break == 4
Reserved == 5
Overflow == 6
Negative == 7

(* ---------------- machine integers ---------------- *)
Pow2(n) == 2 ^ n

Bit(v, i) == (v \div Pow2(i)) % 2

RECURSIVE BitAnd(_, _, _)
BitAnd(v, w, n) ==
    IF n = 0 THEN 0
    ELSE ((v % 2) * (w % 2)) + 2 * BitAnd(v \div 2, w \div 2, n - 1)

RECURSIVE BitOr(_, _, _)
BitOr(v, w, n) ==
    IF n = 0 THEN 0
    ELSE (IF (v % 2) + (w % 2) > 0 THEN 1 ELSE 0) + 2 * BitOr(v \div 2, w \div 2, n - 1)

RECURSIVE BitXor(_, _, _)
BitXor(v, w, n) ==
    IF n = 0 THEN 0
    ELSE (((v % 2) + (w % 2)) % 2) + 2 * BitXor(v \div 2, w \div 2, n - 1)

Not8(v) == 255 - v

(* v & (2^k - 1), v & !(1 << i), v | (1 << i) *)
LowBits(v, k) == v % Pow2(k)

ClearBit(v, i) == v - Bit(v, i) * Pow2(i)

SetBit(v, i) == v + (1 - Bit(v, i)) * Pow2(i)

Wrap8(n) == n % 256

Wrap16(n) == n % 65536

BoolBit(b) == IF b THEN 1 ELSE 0

(* u8 as i8 as u16: sign extension of a byte to 16 bits *)
SignExtend(b) == IF b >= 128 THEN b + 65280 ELSE b

(* ---------------- the bus: a flat 64 KiB RAM ---------------- *)
(* The RAM image the host loads before running; mem holds the bytes that   *)
(* differ from it.                                                         *)
Background(addr) == ((addr % 256) * 167 + (addr \div 256) * 59 + 13) % 256

Read(m, addr) == IF addr \in DOMAIN m THEN m[addr] ELSE Background(addr)

Write(m, addr, v) ==
    IF v = Background(addr)
    THEN [k \in (DOMAIN m) \ {addr} |-> m[k]]
    ELSE [k \in (DOMAIN m) \cup {addr} |-> IF k = addr THEN v ELSE m[k]]

(* ---------------- the core as a value ---------------- *)
(* s.v carries the value returned by the last helper call.                 *)
Cur == [a |-> a, x |-> x, y |-> y, status |-> status, sp |-> sp, pc |-> pc,
        mem |-> mem, log |-> << >>, panic |-> panic, v |-> 0]

(* an arithmetic result outside 0..max is an overflow panic (debug build); *)
(* an unreachable!() arm is a panic too                                    *)
Checked(s, n, max) == IF n < 0 \/ n > max THEN [s EXCEPT !.panic = TRUE] ELSE s

Unreachable(s) == [s EXCEPT !.panic = TRUE]

(* the flag's index used as the mask, without the shift *)
get_flag_index_as_mask(s, flag) == BitAnd(s.status, flag, 8) # 0

get_flag(s, flag) == Bit(s.status, flag) = 1

set_flag(s, flag, value) ==
    LET cleared == ClearBit(s.status, flag)
    IN [s EXCEPT !.status = IF value THEN SetBit(cleared, flag) ELSE cleared]

(* the popped byte stored as it is, break and reserved bits included *)
set_status_all_bits(s, value) == [s EXCEPT !.status = value]

set_status(s, value) ==
    [s EXCEPT !.status = SetBit(ClearBit(value, Break), Reserved)]

(* negative taken from a signed comparison that is off by one *)
update_nz_flags_off_by_one(s, value) ==
    set_flag(set_flag(s, Negative, value > 128), Zero, value = 0)

update_nz_flags(s, value) ==
    set_flag(set_flag(s, Negative, value >= 128), Zero, value = 0)

set_a(s, value) == update_nz_flags([s EXCEPT !.a = value], value)

(* the flags taken from the register before the assignment *)
set_x_stale_flags(s, value) == [update_nz_flags(s, s.x) EXCEPT !.x = value]

set_x(s, value) == update_nz_flags([s EXCEPT !.x = value], value)

set_y(s, value) == update_nz_flags([s EXCEPT !.y = value], value)

read_byte(s, addr) ==
    LET b == Read(s.mem, addr)
    IN [s EXCEPT !.v = b, !.log = Append(@, <<"r", addr, b>>)]

(* the two bytes assembled high byte first *)
read_absolute_big_endian(s, addr) ==
    LET lo == read_byte(s, addr)
        hi == read_byte(lo, Wrap16(addr + 1))
    IN [hi EXCEPT !.v = hi.v + 256 * lo.v]

read_absolute(s, addr) ==
    LET lo == read_byte(s, addr)
        hi == read_byte(lo, Wrap16(addr + 1))
    IN [hi EXCEPT !.v = lo.v + 256 * hi.v]

write_byte(s, addr, value) ==
    [s EXCEPT !.mem = Write(@, addr, value), !.log = Append(@, <<"w", addr, value>>)]

(* the stack pointer decremented before the write *)
stack_push_pre_decrement(s, value) ==
    LET down == Wrap8(s.sp + 255)
        w == write_byte(s, STACK_START + down, value)
    IN [w EXCEPT !.sp = down]

stack_push(s, value) ==
    LET addr == STACK_START + s.sp
        w == write_byte(Checked(s, addr, 65535), Wrap16(addr), value)
    IN [w EXCEPT !.sp = Wrap8(s.sp + 255)]

(* the pop reading before it increments the stack pointer *)
stack_pop_post_increment(s) ==
    LET addr == STACK_START + s.sp
        r == read_byte(s, Wrap16(addr))
    IN [r EXCEPT !.sp = Wrap8(s.sp + 1)]

stack_pop(s) ==
    LET s1 == [s EXCEPT !.sp = Wrap8(s.sp + 1)]
        addr == STACK_START + s1.sp
    IN read_byte(Checked(s1, addr, 65535), Wrap16(addr))

take_byte_at_pc(s) ==
    LET r == read_byte(s, s.pc)
    IN [r EXCEPT !.pc = Wrap16(s.pc + 1)]

(* the immediate resolver forgetting to consume its operand byte *)
take_immediate_no_advance(s) == [s EXCEPT !.v = s.pc]

take_immediate(s) ==
    LET r == take_byte_at_pc(s)
    IN [r EXCEPT !.v = s.pc]

(* the offset byte added without sign extension *)
take_relative_unsigned(s) ==
    LET r == take_byte_at_pc(s)
    IN [r EXCEPT !.v = Wrap16(r.pc + r.v)]

take_relative(s) ==
    LET r == take_byte_at_pc(s)
    IN [r EXCEPT !.v = Wrap16(r.pc + SignExtend(r.v))]

take_zero_page(s) == take_byte_at_pc(s)

take_absolute(s) ==
    LET lo == take_byte_at_pc(s)
        hi == take_byte_at_pc(lo)
    IN [hi EXCEPT !.v = lo.v + 256 * hi.v]

(* the pointer's high byte fetched from the start of the pointer's own page *)
take_indirect_page_wrap(s) ==
    LET r == take_absolute(s)
        lo == read_byte(r, r.v)
        hi == read_byte(lo, (r.v \div 256) * 256 + Wrap8(r.v + 1))
    IN [hi EXCEPT !.v = lo.v + 256 * hi.v]

take_indirect(s) ==
    LET r == take_absolute(s)
    IN read_absolute(r, r.v)

take_absolute_indexed_x(s) ==
    LET r == take_absolute(s)
    IN [r EXCEPT !.v = Wrap16(r.v + r.x)]

take_absolute_indexed_y(s) ==
    LET r == take_absolute(s)
    IN [r EXCEPT !.v = Wrap16(r.v + r.y)]

(* the index added in 16 bits, carrying into page 1 *)
take_zero_page_indexed_x_carry(s) ==
    LET r == take_zero_page(s)
    IN [r EXCEPT !.v = r.v + s.x]

take_zero_page_indexed_x(s) ==
    LET r == take_zero_page(s)
    IN [r EXCEPT !.v = Wrap8(r.v + r.x)]

take_zero_page_indexed_y(s) ==
    LET r == take_zero_page(s)
    IN [r EXCEPT !.v = Wrap8(r.v + r.y)]

take_indexed_indirect(s) ==
    LET r == take_zero_page_indexed_x(s)
    IN read_absolute(r, r.v)

(* the index added to the low byte only, staying in the pointer's page *)
take_indirect_indexed_same_page(s) ==
    LET r == take_zero_page(s)
        p == read_absolute(r, r.v)
    IN [p EXCEPT !.v = (p.v \div 256) * 256 + Wrap8(p.v + p.y)]

take_indirect_indexed(s) ==
    LET r == take_zero_page(s)
        p == read_absolute(r, r.v)
    IN [p EXCEPT !.v = Wrap16(p.v + p.y)]

(* ---------------- instruction handlers of step() ---------------- *)
(* Each handler takes the core after the opcode fetch (and, where it has   *)
(* one, after the addressing-mode resolver ran, with the address in s.v).  *)

branch_cond(s, op) ==
    CASE op = 0 -> ~get_flag(s, Negative)
      [] op = 1 -> get_flag(s, Negative)
      [] op = 2 -> ~get_flag(s, Overflow)
      [] op = 3 -> get_flag(s, Overflow)
      [] op = 4 -> ~get_flag(s, Carry)
      [] op = 5 -> get_flag(s, Carry)
      [] op = 6 -> ~get_flag(s, Zero)
      [] op = 7 -> get_flag(s, Zero)

op_branch(s, op) ==
    LET r == take_relative(s)
    IN IF op > 7 THEN Unreachable(r)
       ELSE IF branch_cond(r, op) THEN [r EXCEPT !.pc = r.v] ELSE r

op_jmp_absolute(s) ==
    LET r == take_absolute(s)
    IN [r EXCEPT !.pc = r.v]

op_jmp_indirect(s) ==
    LET r == take_indirect(s)
    IN [r EXCEPT !.pc = r.v]

(* the return address pushed low byte first *)
op_jsr_low_first(s) ==
    LET r == take_absolute(s)
        return_addr == Wrap16(r.pc + 65535)
        p1 == stack_push(r, return_addr % 256)
        p2 == stack_push(p1, return_addr \div 256)
    IN [p2 EXCEPT !.pc = r.v]

op_jsr(s) ==
    LET r == take_absolute(s)
        subroutine == r.v
        return_addr == Wrap16(r.pc + 65535)
        ret_low == return_addr % 256
        ret_high == return_addr \div 256
        p1 == stack_push(r, ret_high)
        p2 == stack_push(p1, ret_low)
    IN [p2 EXCEPT !.pc = subroutine]

(* the return address used as popped, without the increment *)
op_rts_no_increment(s) ==
    LET lo == stack_pop(s)
        hi == stack_pop(lo)
    IN [hi EXCEPT !.pc = lo.v + 256 * hi.v]

op_rts(s) ==
    LET lo == stack_pop(s)
        hi == stack_pop(lo)
        return_addr == lo.v + 256 * hi.v
    IN [hi EXCEPT !.pc = Wrap16(return_addr + 1)]

(* the status byte pushed as stored, without the break bit *)
op_brk_break_clear(s) ==
    LET s1 == [s EXCEPT !.pc = Wrap16(s.pc + 1)]
        pc_low == s1.pc % 256
        pc_high == s1.pc \div 256
        p1 == stack_push(s1, pc_high)
        p2 == stack_push(p1, pc_low)
        p3 == stack_push(p2, p2.status)
        s2 == set_flag(p3, InterruptDisable, TRUE)
        r == read_absolute(s2, IRQ_BRK_VECTOR)
    IN [r EXCEPT !.pc = r.v]

op_brk(s) ==
    LET s1 == [s EXCEPT !.pc = Wrap16(s.pc + 1)]
        pc_low == s1.pc % 256
        pc_high == s1.pc \div 256
        p1 == stack_push(s1, pc_high)
        p2 == stack_push(p1, pc_low)
        p3 == stack_push(p2, SetBit(p2.status, Break))
        s2 == set_flag(p3, InterruptDisable, TRUE)
        r == read_absolute(s2, IRQ_BRK_VECTOR)
    IN [r EXCEPT !.pc = r.v]

(* the program counter popped before the status byte *)
op_rti_pc_first(s) ==
    LET lo == stack_pop(s)
        hi == stack_pop(lo)
        st == stack_pop(hi)
        s1 == set_status(st, st.v)
    IN [s1 EXCEPT !.pc = lo.v + 256 * hi.v]

op_rti(s) ==
    LET st == stack_pop(s)
        s1 == set_status(st, st.v)
        lo == stack_pop(s1)
        hi == stack_pop(lo)
    IN [hi EXCEPT !.pc = lo.v + 256 * hi.v]

(* BIT, with r the core after the resolver *)
op_bit(r) ==
    LET n == read_byte(r, r.v)
        s1 == set_flag(n, Zero, BitAnd(n.a, n.v, 8) = 0)
        s2 == set_flag(s1, Negative, Bit(n.v, 7) # 0)
    IN set_flag(s2, Overflow, Bit(n.v, 6) # 0)

op_php(s) == stack_push(s, SetBit(s.status, Break))

(* the popped byte assigned to the status register directly *)
op_plp_direct(s) ==
    LET st == stack_pop(s)
    IN [st EXCEPT !.status = st.v]

op_plp(s) ==
    LET st == stack_pop(s)
    IN set_status(st, st.v)

op_pha(s) == stack_push(s, s.a)

op_pla(s) ==
    LET n == stack_pop(s)
    IN set_a(n, n.v)

(* STA / STX / STY, LDA / LDX / LDY, CMP / CPX / CPY after the resolver *)

(* the store also running the load path's flag update *)
op_store_updates_nz(r, value) == update_nz_flags(write_byte(r, r.v, value), value)

op_store(r, value) == write_byte(r, r.v, value)

op_lda(r) ==
    LET n == read_byte(r, r.v)
    IN set_a(n, n.v)

op_ldx(r) ==
    LET n == read_byte(r, r.v)
    IN set_x(n, n.v)

op_ldy(r) ==
    LET n == read_byte(r, r.v)
    IN set_y(n, n.v)

(* compare with the carry set only when the register is strictly above the operand *)
op_compare_strict_carry(r, reg) ==
    LET n == read_byte(r, r.v)
        s1 == update_nz_flags(n, Wrap8(reg + 256 - n.v))
    IN set_flag(s1, Carry, reg > n.v)

(* CMP / CPX / CPY after the resolver: flags from reg - n, the register kept *)
op_compare(r, reg) ==
    LET n == read_byte(r, r.v)
        s1 == update_nz_flags(n, Wrap8(reg + 256 - n.v))
    IN set_flag(s1, Carry, reg >= n.v)

(* Group 0: control flow, flags, stack, Y register, CPX / CPY *)
group0(s, aaa, bbb) ==
    CASE bbb = 4 -> op_branch(s, aaa)
      [] aaa = 0 /\ bbb = 6 -> set_flag(s, Carry, FALSE)
      [] aaa = 1 /\ bbb = 6 -> set_flag(s, Carry, TRUE)
      [] aaa = 2 /\ bbb = 6 -> set_flag(s, InterruptDisable, FALSE)
      [] aaa = 3 /\ bbb = 6 -> set_flag(s, InterruptDisable, TRUE)
      [] aaa = 5 /\ bbb = 6 -> set_flag(s, Overflow, FALSE)
      [] aaa = 6 /\ bbb = 6 -> set_flag(s, Decimal, FALSE)
      [] aaa = 7 /\ bbb = 6 -> set_flag(s, Decimal, TRUE)
      [] aaa = 2 /\ bbb = 3 -> op_jmp_absolute(s)
      [] aaa = 3 /\ bbb = 3 -> op_jmp_indirect(s)
      [] aaa = 1 /\ bbb = 0 -> op_jsr(s)
      [] aaa = 3 /\ bbb = 0 -> op_rts(s)
      [] aaa = 0 /\ bbb = 0 -> op_brk(s)
      [] aaa = 2 /\ bbb = 0 -> op_rti(s)
      [] aaa = 1 /\ bbb = 1 -> op_bit(take_zero_page(s))
      [] aaa = 1 /\ bbb = 3 -> op_bit(take_absolute(s))
      [] aaa = 0 /\ bbb = 2 -> op_php(s)
      [] aaa = 1 /\ bbb = 2 -> op_plp(s)
      [] aaa = 2 /\ bbb = 2 -> op_pha(s)
      [] aaa = 3 /\ bbb = 2 -> op_pla(s)
      [] <<aaa, bbb>> \in {<<0, 1>>, <<0, 3>>, <<0, 5>>, <<0, 7>>, <<1, 5>>, <<1, 7>>,
                          <<2, 1>>, <<2, 5>>, <<2, 7>>, <<3, 1>>, <<3, 5>>, <<3, 7>>} -> s
      [] aaa = 4 /\ bbb = 6 -> set_a(s, s.y)
      [] aaa = 5 /\ bbb = 2 -> set_y(s, s.a)
      [] aaa = 6 /\ bbb = 2 -> set_y(s, Wrap8(s.y + 1))
      [] aaa = 7 /\ bbb = 2 -> set_x(s, Wrap8(s.x + 1))
      [] aaa = 4 /\ bbb = 2 -> set_y(s, Wrap8(s.y + 255))
      [] aaa = 4 /\ bbb = 0 -> s
      [] aaa = 4 /\ bbb = 1 -> op_store(take_zero_page(s), s.y)
      [] aaa = 4 /\ bbb = 3 -> op_store(take_absolute(s), s.y)
      [] aaa = 4 /\ bbb = 5 -> op_store(take_zero_page_indexed_x(s), s.y)
      [] aaa = 4 /\ bbb = 7 -> s
      [] aaa = 5 /\ bbb = 0 -> op_ldy(take_immediate(s))
      [] aaa = 5 /\ bbb = 1 -> op_ldy(take_zero_page(s))
      [] aaa = 5 /\ bbb = 3 -> op_ldy(take_absolute(s))
      [] aaa = 5 /\ bbb = 5 -> op_ldy(take_zero_page_indexed_x(s))
      [] aaa = 5 /\ bbb = 7 -> op_ldy(take_absolute_indexed_x(s))
      [] aaa = 6 /\ bbb = 0 -> LET r == take_immediate(s) IN op_compare(r, r.y)
      [] aaa = 6 /\ bbb = 1 -> LET r == take_zero_page(s) IN op_compare(r, r.y)
      [] aaa = 6 /\ bbb = 3 -> LET r == take_absolute(s) IN op_compare(r, r.y)
      [] aaa = 6 /\ bbb \in {5, 7} -> s
      [] aaa = 7 /\ bbb = 0 -> LET r == take_immediate(s) IN op_compare(r, r.x)
      [] aaa = 7 /\ bbb = 1 -> LET r == take_zero_page(s) IN op_compare(r, r.x)
      [] aaa = 7 /\ bbb = 3 -> LET r == take_absolute(s) IN op_compare(r, r.x)
      [] aaa = 7 /\ bbb \in {5, 7} -> s
      [] OTHER -> Unreachable(s)

(* Group 1: the ALU operations *)
(* the overflow test made against the full byte instead of the low 7 bits *)
alu_binary_wrong_overflow(n, operand, carry) ==
    LET result == n.a + operand + carry
        sevenbit_result == LowBits(n.a, 7) + LowBits(operand, 7) + carry
        carryout == result > 255
        s1 == set_flag(n, Carry, carryout)
        s2 == set_flag(s1, Overflow, carryout # (sevenbit_result > 255))
        s3 == update_nz_flags(s2, Wrap8(result))
    IN [s3 EXCEPT !.v = result]

(* the binary sum shared by ADC and SBC: carry, overflow, N and Z; s.v is   *)
(* the 9-bit result                                                        *)
alu_binary(n, operand, carry) ==
    LET result == n.a + operand + carry
        sevenbit_result == LowBits(n.a, 7) + LowBits(operand, 7) + carry
        carryout == result > 255
        c0 == Checked(Checked(n, result, 65535), sevenbit_result, 65535)
        s1 == set_flag(c0, Carry, carryout)
        s2 == set_flag(s1, Overflow, carryout # (sevenbit_result > 127))
        s3 == update_nz_flags(s2, Wrap8(result))
    IN [s3 EXCEPT !.v = result]

(* the low-nibble carry not propagated into the high nibble *)
adc_decimal_no_nibble_carry(s3, operand, carry) ==
    LET s4 == set_flag(s3, Carry, FALSE)
        lower0 == LowBits(s4.a, 4) + LowBits(operand, 4) + carry
        upper0 == (s4.a \div 16) + (operand \div 16)
        low_carry == lower0 >= 10
        lower == IF low_carry THEN LowBits(lower0 - 10, 4) ELSE lower0
        high_carry == upper0 >= 10
        upper == IF high_carry THEN LowBits(upper0 - 10, 4) ELSE upper0
        s5 == IF high_carry THEN set_flag(s4, Carry, TRUE) ELSE s4
    IN [s5 EXCEPT !.a = Wrap8(BitOr(Wrap16(upper * 16), lower, 16))]

adc_decimal(s3, operand, carry) ==
    LET s4 == set_flag(s3, Carry, FALSE)
        lower0 == LowBits(s4.a, 4) + LowBits(operand, 4) + carry
        upper0 == (s4.a \div 16) + (operand \div 16)
        low_carry == lower0 >= 10
        lower == IF low_carry THEN LowBits(lower0 - 10, 4) ELSE lower0
        upper1 == IF low_carry THEN upper0 + 1 ELSE upper0
        high_carry == upper1 >= 10
        upper == IF high_carry THEN LowBits(upper1 - 10, 4) ELSE upper1
        c1 == Checked(Checked(Checked(s4, lower0, 65535), upper1, 65535),
                      IF low_carry THEN lower0 - 10 ELSE 0, 65535)
        c2 == Checked(c1, IF high_carry THEN upper1 - 10 ELSE 0, 65535)
        s5 == IF high_carry THEN set_flag(c2, Carry, TRUE) ELSE c2
    IN [s5 EXCEPT !.a = Wrap8(BitOr(Wrap16(upper * 16), lower, 16))]

(* negative and zero taken again from the decimal-corrected accumulator *)
op_adc_nz_from_accumulator(r) ==
    LET n == read_byte(r, r.v)
        operand == n.v
        carry == BoolBit(get_flag(n, Carry))
        s3 == alu_binary(n, operand, carry)
    IN IF get_flag(s3, Decimal)
       THEN LET s4 == adc_decimal(s3, operand, carry) IN update_nz_flags(s4, s4.a)
       ELSE [s3 EXCEPT !.a = Wrap8(s3.v)]

op_adc(r) ==
    LET n == read_byte(r, r.v)
        operand == n.v
        carry == BoolBit(get_flag(n, Carry))
        s3 == alu_binary(n, operand, carry)
    IN IF get_flag(s3, Decimal)
       THEN adc_decimal(s3, operand, carry)
       ELSE [s3 EXCEPT !.a = Wrap8(s3.v)]

(* the low-nibble borrow not propagated into the high nibble *)
sbc_decimal_no_nibble_borrow(s3, operand, carry) ==
    LET operand2 == Not8(Wrap8(operand))
        s4 == set_flag(s3, Carry, TRUE)
        lower0 == Wrap16(Wrap16(LowBits(s4.a, 4) + 65536 - LowBits(operand2, 4))
                         + 65536 - (1 - carry))
        upper0 == Wrap16((s4.a \div 16) + 65536 - (operand2 \div 16))
        low_borrow == lower0 >= 10
        lower == IF low_borrow THEN LowBits(Wrap16(lower0 + 10), 4) ELSE lower0
        high_borrow == upper0 >= 10
        upper == IF high_borrow THEN LowBits(Wrap16(upper0 + 10), 4) ELSE upper0
        s5 == IF high_borrow THEN set_flag(s4, Carry, FALSE) ELSE s4
    IN [s5 EXCEPT !.a = Wrap8(BitOr(Wrap16(upper * 16), lower, 16))]

(* operand is the inverted byte, as a u16 *)
sbc_decimal(s3, operand, carry) ==
    LET operand2 == Not8(Wrap8(operand))
        s4 == set_flag(Checked(s3, 1 - carry, 65535), Carry, TRUE)
        lower0 == Wrap16(Wrap16(LowBits(s4.a, 4) + 65536 - LowBits(operand2, 4))
                         + 65536 - (1 - carry))
        upper0 == Wrap16((s4.a \div 16) + 65536 - (operand2 \div 16))
        low_borrow == lower0 >= 10
        lower == IF low_borrow THEN LowBits(Wrap16(lower0 + 10), 4) ELSE lower0
        upper1 == IF low_borrow THEN Wrap16(upper0 + 65535) ELSE upper0
        high_borrow == upper1 >= 10
        upper == IF high_borrow THEN LowBits(Wrap16(upper1 + 10), 4) ELSE upper1
        s5 == IF high_borrow THEN set_flag(s4, Carry, FALSE) ELSE s4
    IN [s5 EXCEPT !.a = Wrap8(BitOr(Wrap16(upper * 16), lower, 16))]

(* the decimal branch skipped: the binary result kept in decimal mode *)
op_sbc_binary_only(r) ==
    LET n == read_byte(r, r.v)
        operand == Not8(n.v)
        carry == BoolBit(get_flag(n, Carry))
        s3 == alu_binary(n, operand, carry)
    IN [s3 EXCEPT !.a = Wrap8(s3.v)]

op_sbc(r) ==
    LET n == read_byte(r, r.v)
        operand == Not8(n.v)
        carry == BoolBit(get_flag(n, Carry))
        s3 == alu_binary(n, operand, carry)
    IN IF get_flag(s3, Decimal)
       THEN sbc_decimal(s3, operand, carry)
       ELSE [s3 EXCEPT !.a = Wrap8(s3.v)]

group1(s, op, addr_mode) ==
    LET addr_writable == addr_mode # 2
        r == CASE addr_mode = 0 -> take_indexed_indirect(s)
               [] addr_mode = 1 -> take_zero_page(s)
               [] addr_mode = 2 -> take_immediate(s)
               [] addr_mode = 3 -> take_absolute(s)
               [] addr_mode = 4 -> take_indirect_indexed(s)
               [] addr_mode = 5 -> take_zero_page_indexed_x(s)
               [] addr_mode = 6 -> take_absolute_indexed_y(s)
               [] addr_mode = 7 -> take_absolute_indexed_x(s)
               [] OTHER -> Unreachable(s)
    IN CASE op = 0 -> LET n == read_byte(r, r.v) IN set_a(n, BitOr(n.a, n.v, 8))
         [] op = 1 -> LET n == read_byte(r, r.v) IN set_a(n, BitAnd(n.a, n.v, 8))
         [] op = 2 -> LET n == read_byte(r, r.v) IN set_a(n, BitXor(n.a, n.v, 8))
         [] op = 3 -> op_adc(r)
         [] op = 4 -> IF addr_writable THEN op_store(r, r.a) ELSE r
         [] op = 5 -> op_lda(r)
         [] op = 6 -> op_compare(r, r.a)
         [] op = 7 -> op_sbc(r)
         [] OTHER -> Unreachable(r)

(* Group 2: shifts and rotates, X register, INC / DEC *)
shift_result(s, op, n) ==
    CASE op = 0 -> [set_flag(s, Carry, Bit(n, 7) # 0) EXCEPT !.v = Wrap8(n * 2)]
      [] op = 1 -> LET carry == get_flag(s, Carry)
                   IN [set_flag(s, Carry, Bit(n, 7) # 0)
                         EXCEPT !.v = Wrap8(n * 2) + BoolBit(carry)]
      [] op = 2 -> [set_flag(s, Carry, Bit(n, 0) # 0) EXCEPT !.v = n \div 2]
      [] op = 3 -> LET carry == get_flag(s, Carry)
                   IN [set_flag(s, Carry, Bit(n, 0) # 0)
                         EXCEPT !.v = (n \div 2) + Wrap8(BoolBit(carry) * 128)]
      [] OTHER -> Unreachable(s)

op_shift_acc(s, op) ==
    LET res == shift_result(s, op, s.a)
    IN set_a(res, res.v)

op_shift_mem(s, op, addr_mode) ==
    LET r == CASE addr_mode = 1 -> take_zero_page(s)
               [] addr_mode = 3 -> take_absolute(s)
               [] addr_mode = 5 -> take_zero_page_indexed_x(s)
               [] addr_mode = 7 -> take_absolute_indexed_x(s)
               [] OTHER -> Unreachable(s)
        addr == r.v
        n == read_byte(r, addr)
        res == shift_result(n, op, n.v)
        w == write_byte(res, addr, res.v)
    IN update_nz_flags(w, res.v)

(* INC / DEC with the dummy write of the unmodified value that the hardware makes *)
op_incdec_dummy_write(r, delta) ==
    LET addr == r.v
        n == read_byte(r, addr)
        result == Wrap8(n.v + delta)
        d == write_byte(n, addr, n.v)
        w == write_byte(d, addr, result)
    IN update_nz_flags(w, result)

(* INC / DEC on memory after the resolver; delta is 1 or 255 (wrapping_sub(1)) *)
op_incdec(r, delta) ==
    LET addr == r.v
        n == read_byte(r, addr)
        result == Wrap8(n.v + delta)
        w == write_byte(n, addr, result)
    IN update_nz_flags(w, result)

group2(s, aaa, bbb) ==
    CASE aaa \in 0..3 /\ bbb \in {0, 4, 6} -> s
      [] aaa \in 0..3 /\ bbb = 2 -> op_shift_acc(s, aaa)
      [] aaa \in 0..3 /\ bbb \in {1, 3, 5, 7} -> op_shift_mem(s, aaa, bbb)
      [] aaa = 4 /\ bbb = 0 -> s
      [] aaa = 4 /\ bbb = 1 -> op_store(take_zero_page(s), s.x)
      [] aaa = 4 /\ bbb = 2 -> set_a(s, s.x)
      [] aaa = 4 /\ bbb = 3 -> op_store(take_absolute(s), s.x)
      [] aaa = 4 /\ bbb = 4 -> s
      [] aaa = 4 /\ bbb = 5 -> op_store(take_zero_page_indexed_y(s), s.x)
      [] aaa = 4 /\ bbb = 6 -> [s EXCEPT !.sp = s.x]
      [] aaa = 4 /\ bbb = 7 -> s
      [] aaa = 5 /\ bbb = 0 -> op_ldx(take_immediate(s))
      [] aaa = 5 /\ bbb = 1 -> op_ldx(take_zero_page(s))
      [] aaa = 5 /\ bbb = 2 -> set_x(s, s.a)
      [] aaa = 5 /\ bbb = 3 -> op_ldx(take_absolute(s))
      [] aaa = 5 /\ bbb = 4 -> s
      [] aaa = 5 /\ bbb = 5 -> op_ldx(take_zero_page_indexed_y(s))
      [] aaa = 5 /\ bbb = 6 -> set_x(s, s.sp)
      [] aaa = 5 /\ bbb = 7 -> op_ldx(take_absolute_indexed_y(s))
      [] aaa = 6 /\ bbb = 0 -> s
      [] aaa = 6 /\ bbb = 1 -> op_incdec(take_zero_page(s), 255)
      [] aaa = 6 /\ bbb = 2 -> set_x(s, Wrap8(s.x + 255))
      [] aaa = 6 /\ bbb = 3 -> op_incdec(take_absolute(s), 255)
      [] aaa = 6 /\ bbb = 4 -> s
      [] aaa = 6 /\ bbb = 5 -> op_incdec(take_zero_page_indexed_x(s), 255)
      [] aaa = 6 /\ bbb = 6 -> s
      [] aaa = 6 /\ bbb = 7 -> op_incdec(take_absolute_indexed_x(s), 255)
      [] aaa = 7 /\ bbb = 0 -> s
      [] aaa = 7 /\ bbb = 1 -> op_incdec(take_zero_page(s), 1)
      [] aaa = 7 /\ bbb = 2 -> s
      [] aaa = 7 /\ bbb = 3 -> op_incdec(take_absolute(s), 1)
      [] aaa = 7 /\ bbb = 4 -> s
      [] aaa = 7 /\ bbb = 5 -> op_incdec(take_zero_page_indexed_x(s), 1)
      [] aaa = 7 /\ bbb = 6 -> s
      [] aaa = 7 /\ bbb = 7 -> op_incdec(take_absolute_indexed_x(s), 1)
      [] OTHER -> Unreachable(s)

(* Group 3: the unofficial operations, all empty arms *)
group3(s, aaa, bbb) == s

(* step(): fetch, decode AAABBBCC, dispatch *)
(* decode without the three-bit masks *)
decode_unmasked(opcode) ==
    [aaa |-> opcode \div 32, bbb |-> opcode \div 4, cc |-> LowBits(opcode, 2)]

decode(opcode) ==
    [aaa |-> LowBits(opcode \div 32, 3),
     bbb |-> LowBits(opcode \div 4, 3),
     cc  |-> LowBits(opcode, 2)]

step(s) ==
    LET f == take_byte_at_pc(s)
        d == decode(f.v)
    IN CASE d.aaa >= 8 \/ d.bbb >= 8 \/ d.cc >= 4 -> Unreachable(f)
         [] d.cc = 0 -> group0(f, d.aaa, d.bbb)
         [] d.cc = 1 -> group1(f, d.aaa, d.bbb)
         [] d.cc = 2 -> group2(f, d.aaa, d.bbb)
         [] d.cc = 3 -> group3(f, d.aaa, d.bbb)

reset(s) ==
    LET s1 == set_flag(s, InterruptDisable, TRUE)
        r == read_absolute(s1, RESET_VECTOR)
    IN [r EXCEPT !.pc = r.v]

(* ---------------- the register file (reg_state.rs) ---------------- *)
RegisterState_default ==
    [a |-> 0, x |-> 0, y |-> 0, carry |-> FALSE, zero |-> FALSE,
     interrupt_disable |-> FALSE, decimal |-> FALSE, overflow |-> FALSE,
     negative |-> FALSE]

(* the break argument packed into bit 5 and the constant into bit 4 *)
RegisterState_get_status_swapped(reg, brk) ==
    BoolBit(reg.carry) * Pow2(0) + BoolBit(reg.zero) * Pow2(1)
      + BoolBit(reg.interrupt_disable) * Pow2(2) + BoolBit(reg.decimal) * Pow2(3)
      + BoolBit(TRUE) * Pow2(4) + BoolBit(brk) * Pow2(5)
      + BoolBit(reg.overflow) * Pow2(6) + BoolBit(reg.negative) * Pow2(7)

(* the bits are disjoint, so the OR of the source is their sum *)
RegisterState_get_status(reg, brk) ==
    BoolBit(reg.carry) * Pow2(0) + BoolBit(reg.zero) * Pow2(1)
      + BoolBit(reg.interrupt_disable) * Pow2(2) + BoolBit(reg.decimal) * Pow2(3)
      + BoolBit(brk) * Pow2(4) + BoolBit(TRUE) * Pow2(5)
      + BoolBit(reg.overflow) * Pow2(6) + BoolBit(reg.negative) * Pow2(7)

RegisterState_set_status(reg, value) ==
    [reg EXCEPT !.carry = Bit(value, 0) # 0,
                !.zero = Bit(value, 1) # 0,
                !.interrupt_disable = Bit(value, 2) # 0,
                !.decimal = Bit(value, 3) # 0,
                !.overflow = Bit(value, 6) # 0,
                !.negative = Bit(value, 7) # 0]

(* ---------------- hardware interrupts ---------------- *)
(* irq() and nmi() are called by tests/test_binaries.rs but are not part of *)
(* cpu.rs; they follow the interrupt sequence of BRK without the PC         *)
(* increment and with the status byte packed with the break bit clear.      *)
interrupt(s, vector) ==
    LET pc_low == s.pc % 256
        pc_high == s.pc \div 256
        p1 == stack_push(s, pc_high)
        p2 == stack_push(p1, pc_low)
        flags == RegisterState_set_status(RegisterState_default, p2.status)
        p3 == stack_push(p2, RegisterState_get_status(flags, FALSE))
        s2 == set_flag(p3, InterruptDisable, TRUE)
        r == read_absolute(s2, vector)
    IN [r EXCEPT !.pc = r.v]

irq(s) == IF get_flag(s, InterruptDisable) THEN s ELSE interrupt(s, IRQ_BRK_VECTOR)

nmi(s) == interrupt(s, NMI_VECTOR)

(* ---------------- the bus implementations ---------------- *)
(* Memory (tests/test_binaries.rs) is the flat RAM held in mem.  The other *)
(* two are values of bus.  A call returns the bus after it, the byte in v  *)
(* and whether it panicked.                                                *)
Memory == [kind |-> "Memory"]

Ret(b, value) == [bus |-> b, v |-> value, panic |-> FALSE]

Panicked(b) == [bus |-> b, v |-> 0, panic |-> TRUE]

(* the addresses of pones-ehbasic/src/main.rs *)
PROGRAM_ADDR == 49152
IO_READ_ADDR == 61444
IO_WRITE_ADDR == 61441

(* a byte array of len cells: the cells in set differ from the contents it *)
(* was built with (zeroes, or the bytes of a file)                         *)
NewArray(len, base) == [len |-> len, base |-> base, set |-> [k \in {} |-> 0]]

ArrayBase(arr, i) ==
    CASE arr.base = "zero" -> 0
      [] arr.base = "file" -> Background(i)
      [] arr.base = "program" -> IF i >= PROGRAM_ADDR THEN Background(i) ELSE 0

ArrayGet(arr, i) == IF i \in DOMAIN arr.set THEN arr.set[i] ELSE ArrayBase(arr, i)

ArraySet(arr, i, value) ==
    [arr EXCEPT !.set =
        IF value = ArrayBase(arr, i)
        THEN [k \in (DOMAIN arr.set) \ {i} |-> arr.set[k]]
        ELSE [k \in (DOMAIN arr.set) \cup {i} |-> IF k = i THEN value ELSE arr.set[k]]]

(* pones/src/cart/ines/mapper.rs *)
INesMapper_from_id(id) ==
    IF id = 0 THEN [ok |-> TRUE, mapper |-> "NRom"]
    ELSE [ok |-> FALSE, error |-> "UnsupportedMapper"]

(* pones/src/cart/ines/parse.rs: image.header is what read_exact can take  *)
(* for the 16 header bytes, image.body the number of bytes after them      *)
INesCart_parse(image) ==
    LET header == image.header
        prg_rom_size == header[5] * 16384
        chr_rom_size == header[6] * 8192
        mapper_id == ((header[8] * 16) % 256) + (header[7] % 16)
        mapper == INesMapper_from_id(mapper_id)
    IN IF Len(header) < 16 THEN [ok |-> FALSE, error |-> "IoError"]
       ELSE IF SubSeq(header, 1, 4) # <<78, 69, 83, 26>>
       THEN [ok |-> FALSE, error |-> "InvalidMagic"]
       ELSE IF image.body < prg_rom_size + chr_rom_size
       THEN [ok |-> FALSE, error |-> "IoError"]
       ELSE IF ~mapper.ok THEN [ok |-> FALSE, error |-> mapper.error]
       ELSE [ok |-> TRUE,
             cart |-> [prg_rom |-> NewArray(prg_rom_size, "file"),
                       chr_rom |-> NewArray(chr_rom_size, "file"),
                       mapper |-> mapper.mapper]]

(* pones/src/cart/ines/mod.rs: the remainder by prg_rom.len() panics when  *)
(* the slice is empty                                                      *)
INesCart_cpu_read(cart, addr) ==
    IF addr >= 32768
    THEN IF cart.prg_rom.len = 0 THEN Panicked(cart)
         ELSE Ret(cart, ArrayGet(cart.prg_rom, (addr - 32768) % cart.prg_rom.len))
    ELSE Ret(cart, 0)

INesCart_cpu_write(cart, addr, value) ==
    IF addr >= 32768
    THEN IF cart.prg_rom.len = 0 THEN Panicked(cart)
         ELSE Ret([cart EXCEPT !.prg_rom =
                      ArraySet(@, (addr - 32768) % cart.prg_rom.len, value)], 0)
    ELSE Ret(cart, 0)

(* pones/src/ppu.rs: the register an address selects, as an index *)
PpuRegisters_default == <<0, 0, 0, 0, 0, 0, 0, 0>>

PpuRegisters_get_mut(addr) == (addr % 8) + 1

(* pones/src/lib.rs: the map over a fresh emulator and a cartridge *)
cpu_mem_map(cart) ==
    [kind |-> "CpuMemMap", cpu_mem |-> NewArray(2048, "zero"),
     ppu_reg |-> PpuRegisters_default, cart |-> cart]

(* pones/src/mem.rs *)
CpuMemMap_read(b, addr) ==
    CASE addr \in 0..8191 -> Ret(b, ArrayGet(b.cpu_mem, addr % b.cpu_mem.len))
      [] addr \in 8192..16383 -> Ret(b, b.ppu_reg[PpuRegisters_get_mut(addr)])
      [] addr \in 16384..16407 -> Ret(b, 0)
      [] addr \in 16408..16415 -> Ret(b, 0)
      [] addr \in 16416..65535 ->
            LET r == INesCart_cpu_read(b.cart, addr)
            IN [bus |-> [b EXCEPT !.cart = r.bus], v |-> r.v, panic |-> r.panic]

CpuMemMap_write(b, addr, value) ==
    CASE addr \in 0..8191 ->
            Ret([b EXCEPT !.cpu_mem = ArraySet(@, addr % b.cpu_mem.len, value)], 0)
      [] addr \in 8192..16383 ->
            Ret([b EXCEPT !.ppu_reg[PpuRegisters_get_mut(addr)] = value], 0)
      [] addr \in 16384..16407 -> Ret(b, 0)
      [] addr \in 16408..16415 -> Ret(b, 0)
      [] addr \in 16416..65535 ->
            LET r == INesCart_cpu_write(b.cart, addr, value)
            IN [bus |-> [b EXCEPT !.cart = r.bus], v |-> 0, panic |-> r.panic]

(* pones-ehbasic/src/main.rs *)
(* input_rx is the channel's queue of keys, sender whether the input       *)
(* thread still holds the sending end; term is the text on the terminal    *)
(* and whether writing to it still succeeds                                *)
EhBasicBus_new ==
    [kind |-> "EhBasicBus", mem |-> NewArray(65536, "program"),
     term |-> [text |-> << >>, ok |-> TRUE], input_rx |-> << >>, sender |-> TRUE]

(* the byte a key is read as; c as u8 keeps the low eight bits of a char *)
KeyByte(key) ==
    CASE key[1] = "Enter" -> 13
      [] key[1] = "Backspace" -> 8
      [] key[1] = "Char" -> key[2] % 256
      [] OTHER -> 0

(* try_recv takes the key off the queue *)
EhBasicBus_read(b, addr) ==
    IF addr = IO_READ_ADDR
    THEN IF b.input_rx # << >>
         THEN Ret([b EXCEPT !.input_rx = Tail(@)], KeyByte(Head(b.input_rx)))
         ELSE IF b.sender THEN Ret(b, 0) ELSE Panicked(b)
    ELSE Ret(b, ArrayGet(b.mem, addr))

EhBasicBus_write(b, addr, value) ==
    LET text == b.term.text
        shown == IF value = 8
                 THEN IF text = << >> THEN text ELSE SubSeq(text, 1, Len(text) - 1)
                 ELSE Append(text, value)
        t == IF addr = IO_WRITE_ADDR THEN [b EXCEPT !.term.text = shown] ELSE b
    IN IF addr = IO_WRITE_ADDR /\ ~b.term.ok THEN Panicked(b)
       ELSE Ret([t EXCEPT !.mem = ArraySet(@, addr, value)], 0)

(* the Bus trait: read and write of whichever implementation bus holds *)
Bus_read(b, addr) ==
    CASE b.kind = "CpuMemMap" -> CpuMemMap_read(b, addr)
      [] b.kind = "EhBasicBus" -> EhBasicBus_read(b, addr)

Bus_write(b, addr, value) ==
    CASE b.kind = "CpuMemMap" -> CpuMemMap_write(b, addr, value)
      [] b.kind = "EhBasicBus" -> EhBasicBus_write(b, addr, value)

(* ---------------- the state machine ---------------- *)
MaxSteps == 2

Snapshot(op, opcode) ==
    [op |-> op, opcode |-> opcode, a |-> a, x |-> x, y |-> y, status |-> status,
     sp |-> sp, pc |-> pc, mem |-> mem]

Remember(snap) == IF Len(hist) < 2 THEN Append(hist, snap) ELSE <<hist[2], snap>>

EmptyMem == [k \in {} |-> 0]

(* the host copies a program into RAM (load_mem) *)
RECURSIVE Load(_, _, _)
Load(m, addr, bytes) ==
    IF bytes = << >> THEN m
    ELSE Load(Write(m, addr, Head(bytes)), Wrap16(addr + 1), Tail(bytes))

Opcodes == 0..255
PcSet == {512, 65535}
Operand1 == {0, 127, 128, 255}
Operand2 == {1, 255}
RegSet == {<<0, 0, 0>>, <<153, 1, 255>>, <<128, 255, 1>>}
StatusSet == {36, 227, 41}
SpSet == {255, 0}

(* Cpu6502::new, then the host loads RAM and lets a program prefix run that *)
(* sets the registers (LDA/LDX/LDY #i, TXS, PLP, JMP)                       *)
Ghosts(n) ==
    /\ log = << >>
    /\ panic = FALSE
    /\ steps = 0
    /\ limit = n
    /\ hist = << >>
    /\ start = [a |-> a, x |-> x, y |-> y, status |-> status, sp |-> sp, pc |-> pc]
    /\ reg_state = RegisterState_default
    /\ bus = Memory

Init ==
    /\ \E regs \in RegSet : a = regs[1] /\ x = regs[2] /\ y = regs[3]
    /\ status \in StatusSet
    /\ sp \in SpSet
    /\ pc \in PcSet
    /\ \E op \in Opcodes, b1 \in Operand1, b2 \in Operand2 :
          mem = Load(EmptyMem, pc, <<op, b1, b2>>)
    /\ Ghosts(MaxSteps)

Commit(r, snap) ==
    /\ a' = r.a
    /\ x' = r.x
    /\ y' = r.y
    /\ status' = r.status
    /\ sp' = r.sp
    /\ pc' = r.pc
    /\ mem' = r.mem
    /\ log' = r.log
    /\ panic' = r.panic
    /\ steps' = steps + 1
    /\ hist' = Remember(snap)
    /\ UNCHANGED <<limit, start, reg_state, bus>>

Step ==
    /\ steps < limit
    /\ ~panic
    /\ Commit(step(Cur), Snapshot("step", Read(mem, pc)))

Reset ==
    /\ steps < limit
    /\ ~panic
    /\ Commit(reset(Cur), Snapshot("reset", -1))

Next == Step \/ Reset

Spec == Init /\ [][Next]_vars

(* ---------------- runs of step() alone ---------------- *)
(* The host of tests/test_binaries.rs: load a program, set pc, call step() *)
(* repeatedly.                                                             *)
NextRun == Step

SingleSteps == 1

Bytes == 0..255
Bools == {0, 1}

(* status byte of a core whose only set flags are the given ones *)
StatusOf(c, d) == 32 + c * Pow2(Carry) + d * Pow2(Decimal)

(* ADC #m / SBC #m over every accumulator, operand, carry and decimal flag *)
ADC_IMM == 105
SBC_IMM == 233

InitAlu ==
    /\ a \in Bytes
    /\ x = 0
    /\ y = 0
    /\ \E c \in Bools, d \in Bools : status = StatusOf(c, d)
    /\ sp = 255
    /\ pc = 512
    /\ \E op \in {ADC_IMM, SBC_IMM}, m \in Bytes : mem = Load(EmptyMem, pc, <<op, m>>)
    /\ Ghosts(SingleSteps)

SpecAlu == InitAlu /\ [][NextRun]_vars

(* decimal mode: ADC #m then SBC #m over every pair of valid BCD bytes *)
PairSteps == 2

IsBcd(b) == (b % 16) <= 9 /\ (b \div 16) <= 9
BcdBytes == {b \in Bytes : IsBcd(b)}

InitBcd ==
    /\ a \in BcdBytes
    /\ x = 0
    /\ y = 0
    /\ \E c \in Bools : status = StatusOf(c, 1)
    /\ sp = 255
    /\ pc = 512
    /\ \E m \in BcdBytes : mem = Load(EmptyMem, pc, <<ADC_IMM, m, SBC_IMM, m>>)
    /\ Ghosts(PairSteps)

SpecBcd == InitBcd /\ [][NextRun]_vars

(* JSR t at p with RTS at t; BRK at p with RTI at the IRQ/BRK vector target *)
JSR == 32
RTS == 96
BRK == 0
RTI == 64
CallSites == {512, 509, 65533, 65534, 65535}
Targets == {768, 0, 510, 40959}
CallSps == {255, 0, 1, 2, 128}
FlagBytes == {32 + c + 2 * z + 4 * i + 8 * d + 64 * v + 128 * n :
                 c \in Bools, z \in Bools, i \in Bools, d \in Bools, v \in Bools, n \in Bools}

InitCall ==
    /\ a = 0
    /\ x = 0
    /\ y = 0
    /\ pc \in CallSites
    /\ \/ /\ sp \in Bytes
          /\ status = 36
          /\ \E t \in Targets :
                /\ t \notin {pc, Wrap16(pc + 1), Wrap16(pc + 2)}
                /\ mem = Load(Load(EmptyMem, t, <<RTS>>), pc, <<JSR, t % 256, t \div 256>>)
       \/ /\ sp \in CallSps
          /\ status \in FlagBytes
          /\ \E t \in Targets :
                /\ t # pc
                /\ mem = Load(Load(Load(EmptyMem, IRQ_BRK_VECTOR, <<t % 256, t \div 256>>),
                                   t, <<RTI>>), pc, <<BRK>>)
    /\ Ghosts(PairSteps)

SpecCall == InitCall /\ [][NextRun]_vars

(* 256 pushes then 256 pops:                                               *)
(*   0200 TXA; PHA; INX; BNE 0200                                          *)
(*   0205 PLA; DEX; BNE 0205                                               *)
(*   0209 JMP 0209                                                         *)
(* and the pair PHA; PLA                                                   *)
MaxRunSteps == 1800
PushPopProgram == <<138, 72, 232, 208, 251, 104, 202, 208, 252, 76, 9, 2>>
PHA == 72
PLA == 104
PLP == 40
StackSps == {255, 0, 1, 127, 128}

InitStack ==
    /\ x = 0
    /\ y = 0
    /\ status = 36
    /\ pc = 512
    /\ \/ /\ a = 0
          /\ sp \in StackSps
          /\ mem = Load(EmptyMem, pc, PushPopProgram)
          /\ Ghosts(MaxRunSteps)
       \/ /\ a \in {0, 1, 128, 255}
          /\ sp \in Bytes
          /\ mem = Load(EmptyMem, pc, <<PHA, PLA>>)
          /\ Ghosts(PairSteps)

SpecStack == InitStack /\ [][NextRun]_vars

(* single instructions over every byte value: registers all hold val, the  *)
(* operand byte is val or 1                                                *)
InitByte ==
    /\ \E val \in Bytes :
          /\ a = val /\ x = val /\ y = val /\ sp = val
          /\ pc = 512
          /\ \E op \in Opcodes, b1 \in {val, 1} : mem = Load(EmptyMem, pc, <<op, b1, 2>>)
    /\ status \in StatusSet
    /\ Ghosts(SingleSteps)

SpecByte == InitByte /\ [][NextRun]_vars

(* the host of interrupt_test: step(), then nmi() or irq() *)
CLI == 88
SEI == 120
NOP == 234
IntPrograms == {CLI, SEI, NOP, RTI}

Irq ==
    /\ steps < limit
    /\ ~panic
    /\ Commit(irq(Cur), Snapshot("irq", -1))

Nmi ==
    /\ steps < limit
    /\ ~panic
    /\ Commit(nmi(Cur), Snapshot("nmi", -1))

NextInt == Step \/ Irq \/ Nmi

InitInt ==
    /\ a = 0
    /\ x = 0
    /\ y = 0
    /\ pc \in PcSet
    /\ sp \in CallSps
    /\ status \in FlagBytes
    /\ \E op \in IntPrograms : mem = Load(EmptyMem, pc, <<op>>)
    /\ Ghosts(PairSteps)

SpecInt == InitInt /\ [][NextInt]_vars

(* the register file on its own: a host packing and unpacking the status   *)
(* byte of a RegisterState with any flag assignment                        *)
RegisterStates ==
    {[RegisterState_default EXCEPT !.carry = c, !.zero = z, !.interrupt_disable = i,
                                   !.decimal = d, !.overflow = v, !.negative = n] :
        c \in BOOLEAN, z \in BOOLEAN, i \in BOOLEAN, d \in BOOLEAN,
        v \in BOOLEAN, n \in BOOLEAN}

InitReg ==
    /\ a = 0 /\ x = 0 /\ y = 0 /\ status = 36 /\ sp = 255 /\ pc = 0
    /\ mem = EmptyMem
    /\ log = << >>
    /\ panic = FALSE
    /\ steps = 0
    /\ limit = PairSteps
    /\ hist = << >>
    /\ start = [a |-> a, x |-> x, y |-> y, status |-> status, sp |-> sp, pc |-> pc]
    /\ reg_state \in RegisterStates
    /\ bus = Memory

(* hist holds the call made, with the register file and the record of the *)
(* previous call from before it                                           *)
RegCall(record, after) ==
    /\ steps < limit
    /\ steps' = steps + 1
    /\ reg_state' = after
    /\ log' = <<record>>
    /\ hist' = <<[op |-> record[1], reg |-> reg_state, log |-> log]>>
    /\ UNCHANGED <<a, x, y, status, sp, pc, mem, panic, limit, start, bus>>

GetStatus ==
    \E brk \in BOOLEAN :
        RegCall(<<"get_status", brk, RegisterState_get_status(reg_state, brk)>>, reg_state)

SetStatus ==
    \E value \in Bytes :
        RegCall(<<"set_status", value>>, RegisterState_set_status(reg_state, value))

NextReg == GetStatus \/ SetStatus

SpecReg == InitReg /\ [][NextReg]_vars

(* step() and reset() from cores holding every byte value *)
SpecStatus == InitByte /\ [][Next]_vars

(* ---------------- calls on the bus ---------------- *)
(* The cartridge images handed to INesCart::parse: the header bytes 4 to 7 *)
(* vary, the magic may be wrong and the file may end early                 *)
Header(magic, prg, chr, flags6, flags7) ==
    <<78, 69, 83, magic, prg, chr, flags6, flags7, 0, 0, 0, 0, 0, 0, 0, 0>>

Images ==
    {[header |-> Header(magic, prg, chr, flags6, flags7),
      body |-> prg * 16384 + chr * 8192 - short] :
        magic \in {26, 0}, prg \in {0, 1, 2}, chr \in {0, 1},
        flags6 \in {0, 1, 16}, flags7 \in {0, 1, 16}, short \in {0, 1}}
    \cup {[header |-> <<78, 69, 83>>, body |-> 0]}

Keys == {<<"Enter">>, <<"Backspace">>, <<"Char", 65>>, <<"Char", 8364>>, <<"ArrowLeft">>}

KeyQueues == {<< >>, << <<"Char", 65>> >>, << <<"Enter">>, <<"Char", 8364>> >>}

BusAddrs ==
    {0, 2047, 2048, 8191, 8192, 8194, 16383, 16384, 16408, 16416, 32767, 32768,
     49152, 65535, IO_READ_ADDR, IO_WRITE_ADDR}

BusValues == {0, 8, 65}

(* NesEmulator::new with a parsed cartridge, or EhBasicBus::new after the  *)
(* input thread has queued some keys                                       *)
InitBus ==
    /\ a = 0 /\ x = 0 /\ y = 0 /\ status = 36 /\ sp = 255 /\ pc = 0
    /\ mem = EmptyMem
    /\ log = << >>
    /\ panic = FALSE
    /\ steps = 0
    /\ limit = PairSteps
    /\ hist = << >>
    /\ start = [a |-> a, x |-> x, y |-> y, status |-> status, sp |-> sp, pc |-> pc]
    /\ reg_state = RegisterState_default
    /\ \/ \E image \in Images :
             /\ INesCart_parse(image).ok
             /\ bus = cpu_mem_map(INesCart_parse(image).cart)
       \/ \E keys \in KeyQueues : bus = [EhBasicBus_new EXCEPT !.input_rx = keys]

(* hist holds the call made with the bus and the record of the previous    *)
(* call from before it; log holds the record of the call                   *)
BusCall(op, addr, value, r) ==
    /\ steps < limit
    /\ ~panic
    /\ steps' = steps + 1
    /\ bus' = r.bus
    /\ panic' = r.panic
    /\ log' = << <<op, addr, value>> >>
    /\ hist' = <<[op |-> op, addr |-> addr, bus |-> bus, log |-> log]>>
    /\ UNCHANGED <<a, x, y, status, sp, pc, mem, limit, start, reg_state>>

BusRead ==
    \E addr \in BusAddrs :
        BusCall("read", addr, Bus_read(bus, addr).v, Bus_read(bus, addr))

BusWrite ==
    \E addr \in BusAddrs, value \in BusValues :
        BusCall("write", addr, value, Bus_write(bus, addr, value))

(* the input thread of EhBasicBus::new: read_key, then send *)
KeyPress ==
    /\ bus.kind = "EhBasicBus" /\ bus.sender
    /\ \E key \in Keys :
          BusCall("send", 0, 0, Ret([bus EXCEPT !.input_rx = Append(@, key)], 0))

(* read_key fails: the thread panics and drops the sending end *)
InputFails ==
    /\ bus.kind = "EhBasicBus" /\ bus.sender
    /\ BusCall("hangup", 0, 0, Ret([bus EXCEPT !.sender = FALSE], 0))

(* the terminal goes away: later writes to it fail *)
TermFails ==
    /\ bus.kind = "EhBasicBus" /\ bus.term.ok
    /\ BusCall("close", 0, 0, Ret([bus EXCEPT !.term.ok = FALSE], 0))

NextBus == BusRead \/ BusWrite \/ KeyPress \/ InputFails \/ TermFails

SpecBus == InitBus /\ [][NextBus]_vars

(* ======================= properties ======================= *)
Last == hist[Len(hist)]

Stepped == Len(hist) > 0 /\ Last.op = "step"

Flag(st, f) == Bit(st, f) = 1

SameRegisters(s) == a = s.a /\ x = s.x /\ y = s.y /\ sp = s.sp

SixFlags(st) == <<Bit(st, 0), Bit(st, 1), Bit(st, 2), Bit(st, 3), Bit(st, 6), Bit(st, 7)>>

(* bus accesses of the last call *)
LogReads == SelectSeq(log, LAMBDA e : e[1] = "r")
LogWrites == SelectSeq(log, LAMBDA e : e[1] = "w")
LastRead == LogReads[Len(LogReads)][3]
LastWrite == LogWrites[Len(LogWrites)][3]

(* the documented instruction set, by addressing mode *)
DocImplied ==
    {0, 8, 10, 24, 40, 42, 56, 64, 72, 74, 88, 96, 104, 106, 120, 136,
     138, 152, 154, 168, 170, 184, 186, 200, 202, 216, 232, 234, 248}

DocImmediate ==
    {9, 41, 73, 105, 160, 162, 169, 192, 201, 224, 233}

DocZeroPage ==
    {5, 6, 36, 37, 38, 69, 70, 101, 102, 132, 133, 134, 164, 165, 166,
     196, 197, 198, 228, 229, 230}

DocZeroPageIndexed ==
    {21, 22, 53, 54, 85, 86, 117, 118, 148, 149, 150, 180, 181, 182, 213,
     214, 245, 246}

DocIndexedIndirect ==
    {1, 33, 65, 97, 129, 161, 193, 225}

DocIndirectIndexed ==
    {17, 49, 81, 113, 145, 177, 209, 241}

DocRelative ==
    {16, 48, 80, 112, 144, 176, 208, 240}

DocAbsolute ==
    {13, 14, 32, 44, 45, 46, 76, 77, 78, 108, 109, 110, 140, 141, 142,
     172, 173, 174, 204, 205, 206, 236, 237, 238}

DocAbsoluteIndexed ==
    {25, 29, 30, 57, 61, 62, 89, 93, 94, 121, 125, 126, 153, 157, 185,
     188, 189, 190, 217, 221, 222, 249, 253, 254}

(* jump, call, return and interrupt instructions *)
ControlOps == {0, 32, 64, 76, 96, 108}

IllegalOperands0 ==
    {2, 18, 26, 34, 50, 58, 66, 82, 90, 98, 114, 122, 146, 178, 210, 218,
     242, 250}

IllegalOperands1 ==
    {3, 4, 7, 11, 19, 20, 23, 35, 39, 43, 51, 52, 55, 67, 68, 71, 75, 83,
     84, 87, 99, 100, 103, 107, 115, 116, 119, 128, 130, 131, 135, 137,
     139, 147, 151, 163, 167, 171, 179, 183, 194, 195, 199, 203, 211, 212,
     215, 226, 227, 231, 235, 243, 244, 247}

IllegalOperands2 ==
    {12, 15, 27, 28, 31, 47, 59, 60, 63, 79, 91, 92, 95, 111, 123, 124,
     127, 143, 155, 156, 158, 159, 175, 187, 191, 207, 219, 220, 223, 239,
     251, 252, 255}

NzIntoA ==
    {1, 5, 9, 10, 13, 17, 21, 25, 29, 33, 37, 41, 42, 45, 49, 53, 57, 61,
     65, 69, 73, 74, 77, 81, 85, 89, 93, 104, 106, 138, 152, 161, 165,
     169, 173, 177, 181, 185, 189}

NzIntoX ==
    {162, 166, 170, 174, 182, 186, 190, 202, 232}

NzIntoY ==
    {136, 160, 164, 168, 172, 180, 188, 200}

NzIntoMemory ==
    {6, 14, 22, 30, 38, 46, 54, 62, 70, 78, 86, 94, 102, 110, 118, 126,
     198, 206, 214, 222, 230, 238, 246, 254}

CmpOps ==
    {193, 197, 201, 205, 209, 213, 217, 221}

CpxOps ==
    {224, 228, 236}

CpyOps ==
    {192, 196, 204}

AdcOps ==
    {97, 101, 105, 109, 113, 117, 121, 125}

SbcOps ==
    {225, 229, 233, 237, 241, 245, 249, 253}

Documented ==
    DocImplied \cup DocImmediate \cup DocZeroPage \cup DocZeroPageIndexed
    \cup DocIndexedIndirect \cup DocIndirectIndexed \cup DocRelative
    \cup DocAbsolute \cup DocAbsoluteIndexed

Illegal == Opcodes \ Documented

DocOperandBytes(op) ==
    IF op \in DocImplied THEN 0
    ELSE IF op \in DocAbsolute \cup DocAbsoluteIndexed THEN 2
    ELSE 1

IllegalOperandBytes(op) ==
    IF op \in IllegalOperands0 THEN 0 ELSE IF op \in IllegalOperands2 THEN 2 ELSE 1

(* BPL BMI BVC BVS BCC BCS BNE BEQ: flag and polarity *)
BranchTaken(op, st) ==
    CASE op = 16 -> ~Flag(st, Negative)
      [] op = 48 -> Flag(st, Negative)
      [] op = 80 -> ~Flag(st, Overflow)
      [] op = 112 -> Flag(st, Overflow)
      [] op = 144 -> ~Flag(st, Carry)
      [] op = 176 -> Flag(st, Carry)
      [] op = 208 -> ~Flag(st, Zero)
      [] op = 240 -> Flag(st, Zero)

(* ---------------- runs over the addressing modes ---------------- *)
(* one zero-page-indexed instruction over every operand byte and index *)
InitZp ==
    /\ a = 0
    /\ \E i \in Bytes : x = i /\ y = Wrap8(i + 85)
    /\ status = 36
    /\ sp = 255
    /\ pc = 512
    /\ \E op \in DocZeroPageIndexed, d \in Bytes : mem = Load(EmptyMem, pc, <<op, d>>)
    /\ Ghosts(SingleSteps)

SpecZp == InitZp /\ [][NextRun]_vars

(* one absolute,X / absolute,Y / (zero-page),Y instruction over every index *)
(* value, with bases at both ends of the address space and of a page        *)
BaseSet == {0, 255, 256, 33023, 65280, 65535}
PointerSites == {16, 254, 255}

InitAbs ==
    /\ a = 0
    /\ \E i \in Bytes : x = i /\ y = Wrap8(i + 85)
    /\ status = 36
    /\ sp = 255
    /\ pc = 512
    /\ \E base \in BaseSet :
          \/ \E op \in DocAbsoluteIndexed :
                mem = Load(EmptyMem, pc, <<op, base % 256, base \div 256>>)
          \/ \E op \in DocIndirectIndexed, d \in PointerSites :
                mem = Load(Load(EmptyMem, d, <<base % 256, base \div 256>>), pc, <<op, d>>)
    /\ Ghosts(SingleSteps)

SpecAbs == InitAbs /\ [][NextRun]_vars

(* ---------------- the stack instructions and the interrupts ---------------- *)
(* one stack instruction at 0x0200 from every SP, with irq() and nmi()      *)
PHP == 8
StackOps == {PHA, PHP, PLA, PLP, JSR, RTS, BRK, RTI}

InitPage ==
    /\ a = 0
    /\ x = 0
    /\ y = 0
    /\ sp \in Bytes
    /\ status \in {32, 36}
    /\ pc = 512
    /\ \E op \in StackOps : mem = Load(EmptyMem, pc, <<op, 0, 3>>)
    /\ Ghosts(PairSteps)

SpecPage == InitPage /\ [][NextInt]_vars

(* C1: every step() call, whatever the opcode byte and the state, completes *)
(* without reaching an unreachable!() arm and without arithmetic overflow.  *)
C1_StepNeverFails == ~panic

(* a decimal-mode ADC whose low-nibble correction ran, completed *)
C1_Witness ==
    /\ Stepped /\ Last.opcode = ADC_IMM /\ Flag(Last.status, Decimal)
    /\ LowBits(Last.a, 4) + LowBits(LastRead, 4) >= 10
    /\ ~panic

(* C2: a documented opcode that is not a jump, call, return or interrupt    *)
(* advances PC (mod 65536) by 1 plus the operand bytes of its addressing    *)
(* mode; a branch that is not taken advances PC by 2.                       *)
C2_PcAdvance ==
    (Stepped /\ Last.opcode \in Documented \ ControlOps) =>
        IF Last.opcode \in DocRelative
        THEN ~BranchTaken(Last.opcode, Last.status) => pc = Wrap16(Last.pc + 2)
        ELSE pc = Wrap16(Last.pc + 1 + DocOperandBytes(Last.opcode))

(* a three-byte instruction fetched across the top of the address space *)
C2_Witness ==
    /\ Stepped /\ Last.opcode \in DocAbsoluteIndexed
    /\ Last.pc = 65535 /\ pc = 2

(* C3: an opcode not assigned to a documented instruction is a no-op that   *)
(* consumes the operand bytes of its addressing mode: PC advances by 1 plus *)
(* that count, and A, X, Y, SP, the flags and memory are unchanged.         *)
C3_IllegalConsumesOperands ==
    (Stepped /\ Last.opcode \in Illegal) =>
        /\ pc = Wrap16(Last.pc + 1 + IllegalOperandBytes(Last.opcode))
        /\ SameRegisters(Last)
        /\ status = Last.status
        /\ mem = Last.mem

(* C4: after an NZ-affecting instruction the negative flag is bit 7 of the  *)
(* 8-bit result and the zero flag is (result = 0). The result is the value  *)
(* left in the destination register or memory byte; for a compare it is    *)
(* (register - operand) mod 256 and for ADC / SBC the truncated binary sum. *)
NzOps ==
    NzIntoA \cup NzIntoX \cup NzIntoY \cup NzIntoMemory \cup CmpOps \cup CpxOps
    \cup CpyOps \cup AdcOps \cup SbcOps

NzResult ==
    LET op == Last.opcode
        c == Bit(Last.status, Carry)
    IN CASE op \in NzIntoA -> a
         [] op \in NzIntoX -> x
         [] op \in NzIntoY -> y
         [] op \in NzIntoMemory -> LastWrite
         [] op \in CmpOps -> Wrap8(Last.a + 256 - LastRead)
         [] op \in CpxOps -> Wrap8(Last.x + 256 - LastRead)
         [] op \in CpyOps -> Wrap8(Last.y + 256 - LastRead)
         [] op \in AdcOps -> Wrap8(Last.a + LastRead + c)
         [] op \in SbcOps -> Wrap8(Last.a + Not8(LastRead) + c)

C4_NzFollowResult ==
    (Stepped /\ Last.opcode \in NzOps) =>
        /\ Flag(status, Negative) <=> NzResult >= 128
        /\ Flag(status, Zero) <=> NzResult = 0

(* a load of 128, the smallest negative byte *)
C4_Witness ==
    /\ Stepped /\ Last.opcode = 169 /\ a = 128
    /\ Flag(status, Negative) /\ ~Flag(status, Zero)

(* C5 as stated: for ADC and SBC, whatever the decimal flag, carry is       *)
(* (A + M' + C > 255) and overflow is (that carry-out differs from the      *)
(* carry-out of the low-7-bit sum), M' the operand or its inverse.          *)
AluOperand == IF Last.opcode \in AdcOps THEN LastRead ELSE Not8(LastRead)

AluCarryOut == Last.a + AluOperand + Bit(Last.status, Carry) > 255

AluSevenBitCarry ==
    (Last.a % 128) + (AluOperand % 128) + Bit(Last.status, Carry) > 127

C5_CarryOverflowAnyMode ==
    (Stepped /\ Last.opcode \in AdcOps \cup SbcOps) =>
        /\ Flag(status, Carry) <=> AluCarryOut
        /\ Flag(status, Overflow) <=> (AluCarryOut # AluSevenBitCarry)

(* C5 amended: the overflow rule holds with the decimal flag clear or set;  *)
(* the carry rule holds with the decimal flag clear.                        *)
C5_CarryOverflowBinary ==
    (Stepped /\ Last.opcode \in AdcOps \cup SbcOps) =>
        /\ ~Flag(Last.status, Decimal) => (Flag(status, Carry) <=> AluCarryOut)
        /\ Flag(status, Overflow) <=> (AluCarryOut # AluSevenBitCarry)

(* a decimal-mode ADC whose carry is not the binary carry-out while the    *)
(* overflow flag is set by the binary rule                                 *)
C5_Witness ==
    /\ Stepped /\ Last.opcode = ADC_IMM /\ Flag(Last.status, Decimal)
    /\ Flag(status, Carry) /\ ~AluCarryOut
    /\ Flag(status, Overflow) /\ AluSevenBitCarry

(* C6 as stated: in decimal mode, for valid BCD A and M and either carry,   *)
(* ADC M then SBC M (the SBC taking the carry the ADC produced) leaves the  *)
(* accumulator equal to its original value.                                 *)
FromBcd(b) == 10 * (b \div 16) + (b % 16)

ToBcd(n) == 16 * (n \div 10) + (n % 10)

OperandOf(snap) == Read(snap.mem, Wrap16(snap.pc + 1))

RanPair(op1, op2) ==
    /\ Len(hist) = 2
    /\ hist[1].op = "step" /\ hist[1].opcode = op1
    /\ hist[2].op = "step" /\ hist[2].opcode = op2

BcdPair ==
    /\ RanPair(ADC_IMM, SBC_IMM)
    /\ Flag(hist[1].status, Decimal) /\ Flag(hist[2].status, Decimal)
    /\ IsBcd(hist[1].a) /\ IsBcd(OperandOf(hist[1]))
    /\ OperandOf(hist[2]) = OperandOf(hist[1])

C6_BcdRoundTrip == BcdPair => a = hist[1].a

(* C6 amended: the ADC produces carry k = (dec(A) + dec(M) + c > 99), and   *)
(* the accumulator ends as the BCD encoding of (dec(A) + c + k - 1) mod 100,*)
(* c the carry into the ADC; it equals its original value exactly when k    *)
(* differs from c.                                                          *)
C6_BcdRoundTripCarry ==
    BcdPair =>
        LET c == Bit(hist[1].status, Carry)
            k == Bit(hist[2].status, Carry)
        IN /\ k = BoolBit(FromBcd(hist[1].a) + FromBcd(OperandOf(hist[1])) + c > 99)
           /\ a = ToBcd((FromBcd(hist[1].a) + c + k + 99) % 100)
           /\ (a = hist[1].a) <=> (k # c)

(* 99 + 01 with carry clear: the ADC carries out, the SBC restores 99 *)
C6_Witness ==
    /\ BcdPair /\ hist[1].a = 153 /\ OperandOf(hist[1]) = 1
    /\ ~Flag(hist[1].status, Carry) /\ Flag(hist[2].status, Carry)
    /\ a = 153

(* C7: 256 consecutive pushes return SP to its starting value; 256 pops     *)
(* then return the pushed bytes in reverse order and restore SP again; a    *)
(* pop right after a push returns the pushed byte and restores SP.          *)
RunsPushPop ==
    /\ start.pc = 512 /\ start.x = 0
    /\ \A i \in 1..Len(PushPopProgram) : Read(mem, 511 + i) = PushPopProgram[i]

C7_StackWraps ==
    /\ (RunsPushPop /\ steps = 1024) =>
           (pc = 517 /\ x = 0 /\ sp = start.sp /\ ~panic)
    /\ (RunsPushPop /\ steps > 1024 /\ steps <= 1792 /\ Last.opcode = PLA) =>
           a = Wrap8(x + 255)
    /\ (RunsPushPop /\ steps = 1792) => (pc = 521 /\ sp = start.sp)
    /\ RanPair(PHA, PLA) => (a = hist[1].a /\ sp = hist[1].sp)

(* all 512 stack operations done, starting from SP = 0 so that the first   *)
(* push already wraps                                                      *)
C7_Witness == RunsPushPop /\ steps = 1792 /\ start.sp = 0 /\ sp = 0 /\ a = 0

(* C8: JSR t at p followed at once by RTS at t sets PC to (p + 3) mod 65536 *)
(* and restores SP.                                                         *)
C8_JsrRtsRoundTrip ==
    RanPair(JSR, RTS) => (pc = Wrap16(hist[1].pc + 3) /\ sp = hist[1].sp)

(* the call sits at the top of memory, so the return address wraps *)
C8_Witness == RanPair(JSR, RTS) /\ hist[1].pc = 65534 /\ pc = 1

(* C9: JSR at p pushes (p + 2) mod 65536, high byte at 0x0100+SP then low   *)
(* byte at 0x0100+(SP-1 mod 256), and leaves SP decremented by 2; RTS pops  *)
(* low then high and sets PC to the popped value plus 1 (mod 65536).        *)
C9_JsrRtsStackLayout ==
    /\ (Stepped /\ Last.opcode = JSR) =>
          LET ret == Wrap16(Last.pc + 2)
          IN /\ LogWrites = << <<"w", STACK_START + Last.sp, ret \div 256>>,
                               <<"w", STACK_START + Wrap8(Last.sp + 255), ret % 256>> >>
             /\ sp = Wrap8(Last.sp + 254)
    /\ (Stepped /\ Last.opcode = RTS) =>
          LET lo_at == STACK_START + Wrap8(Last.sp + 1)
              hi_at == STACK_START + Wrap8(Last.sp + 2)
              lo == Read(Last.mem, lo_at)
              hi == Read(Last.mem, hi_at)
          IN /\ Tail(log) = << <<"r", lo_at, lo>>, <<"r", hi_at, hi>> >>
             /\ pc = Wrap16(lo + 256 * hi + 1)
             /\ sp = Wrap8(Last.sp + 2)

(* a JSR with SP = 0: the second push wraps to the top of the stack page *)
C9_Witness ==
    /\ Stepped /\ Last.opcode = JSR /\ Last.sp = 0 /\ sp = 254
    /\ Read(mem, 511) = Wrap16(Last.pc + 2) % 256

(* C10: BRK at p followed at once by RTI at the vector target restores PC   *)
(* to (p + 2) mod 65536, SP, and all six flags.                             *)
C10_BrkRtiRoundTrip ==
    RanPair(BRK, RTI) =>
        /\ pc = Wrap16(hist[1].pc + 2)
        /\ sp = hist[1].sp
        /\ SixFlags(status) = SixFlags(hist[1].status)

(* interrupt-disable was clear before the BRK and is clear again after RTI *)
C10_Witness ==
    /\ RanPair(BRK, RTI)
    /\ ~Flag(hist[1].status, InterruptDisable) /\ Flag(hist[2].status, InterruptDisable)
    /\ ~Flag(status, InterruptDisable) /\ Flag(status, Decimal) /\ Flag(status, Carry)

(* C11: BRK at p pushes the high byte of (p + 2), then its low byte, then   *)
(* the status byte with break and reserved set and the six flags as they    *)
(* were; then sets interrupt-disable and loads PC little-endian from        *)
(* 0xFFFE/0xFFFF; SP ends 3 lower (mod 256) and no other flag changes.      *)
StackAt(s, k) == STACK_START + Wrap8(s + 256 - k)

C11_BrkSequence ==
    (Stepped /\ Last.opcode = BRK) =>
        LET ret == Wrap16(Last.pc + 2)
            pushed == LogWrites[3][3]
            lo == Read(mem, IRQ_BRK_VECTOR)
            hi == Read(mem, Wrap16(IRQ_BRK_VECTOR + 1))
        IN /\ Len(log) = 6
           /\ SubSeq(log, 2, 3) = << <<"w", StackAt(Last.sp, 0), ret \div 256>>,
                                     <<"w", StackAt(Last.sp, 1), ret % 256>> >>
           /\ log[4][1] = "w" /\ log[4][2] = StackAt(Last.sp, 2)
           /\ Bit(pushed, Break) = 1 /\ Bit(pushed, Reserved) = 1
           /\ SixFlags(pushed) = SixFlags(Last.status)
           /\ SubSeq(log, 5, 6) = << <<"r", IRQ_BRK_VECTOR, lo>>,
                                     <<"r", Wrap16(IRQ_BRK_VECTOR + 1), hi>> >>
           /\ pc = lo + 256 * hi
           /\ sp = Wrap8(Last.sp + 253)
           /\ status = SetBit(Last.status, InterruptDisable)

(* a BRK with SP = 1, interrupt-disable clear and decimal set: the third   *)
(* push wraps to 0x01FF                                                    *)
C11_Witness ==
    /\ Stepped /\ Last.opcode = BRK /\ Last.sp = 1 /\ sp = 254
    /\ ~Flag(Last.status, InterruptDisable) /\ Flag(Last.status, Decimal)
    /\ Flag(status, InterruptDisable) /\ log[4][2] = 511

(* C12: RTI pops the status byte, then PC low, then PC high; the six flags  *)
(* come from bits 0,1,2,3,6,7 of the popped status byte, and its bits 4 and *)
(* 5 have no effect: a run whose popped status byte differs only in those   *)
(* bits ends in the same CPU state. The same holds for PLP.                 *)
Registers(s) == <<s.a, s.x, s.y, s.status, s.sp, s.pc>>

(* the core before the last call, with the byte at addr replaced *)
Rerun(snap, addr, value) ==
    [a |-> snap.a, x |-> snap.x, y |-> snap.y, status |-> snap.status,
     sp |-> snap.sp, pc |-> snap.pc, mem |-> Write(snap.mem, addr, value),
     log |-> << >>, panic |-> FALSE, v |-> 0]

BreakReservedBits == {0, 16, 32, 48}

C12_PoppedStatus ==
    (Stepped /\ Last.opcode \in {RTI, PLP}) =>
        LET st_at == StackAt(Last.sp, -1)
            popped == Read(Last.mem, st_at)
            lo == Read(Last.mem, StackAt(Last.sp, -2))
            hi == Read(Last.mem, StackAt(Last.sp, -3))
        IN /\ log[2] = <<"r", st_at, popped>>
           /\ SixFlags(status) = SixFlags(popped)
           /\ Last.opcode = RTI =>
                 /\ Len(log) = 4
                 /\ log[3] = <<"r", StackAt(Last.sp, -2), lo>>
                 /\ log[4] = <<"r", StackAt(Last.sp, -3), hi>>
                 /\ pc = lo + 256 * hi
                 /\ sp = Wrap8(Last.sp + 3)
           /\ Last.opcode = PLP =>
                 /\ Len(log) = 2
                 /\ pc = Wrap16(Last.pc + 1)
                 /\ sp = Wrap8(Last.sp + 1)
           /\ \A bits \in BreakReservedBits :
                 LET other == Rerun(Last, st_at,
                                    ClearBit(ClearBit(popped, Break), Reserved) + bits)
                 IN Read(other.mem, other.pc) = Last.opcode =>
                       Registers(step(other)) = Registers(Cur)

(* an RTI popping a status byte with break set and reserved clear, its     *)
(* decimal and carry bits set                                              *)
C12_Witness ==
    /\ Stepped /\ Last.opcode = RTI
    /\ LET popped == log[2][3]
       IN /\ Bit(popped, Break) = 1 /\ Bit(popped, Reserved) = 0
          /\ Bit(popped, Decimal) = 1 /\ Bit(popped, Carry) = 1
    /\ Flag(status, Decimal) /\ Flag(status, Carry)
    /\ pc = log[3][3] + 256 * log[4][3]

(* C13: irq() with interrupt-disable set changes nothing and writes nothing *)
(* to the bus; irq() with interrupt-disable clear pushes PC high, PC low    *)
(* and the status byte with the break bit clear, sets interrupt-disable and *)
(* loads PC from 0xFFFE/0xFFFF, so that a second irq() right after it has   *)
(* no effect.                                                               *)
Called(op) == Len(hist) > 0 /\ Last.op = op

(* the shared interrupt sequence as seen on the bus and in the registers *)
InterruptEffect(vector) ==
    LET pushed == log[3][3]
        lo == Read(mem, vector)
        hi == Read(mem, Wrap16(vector + 1))
    IN /\ Len(log) = 5
       /\ SubSeq(log, 1, 2) = << <<"w", StackAt(Last.sp, 0), Last.pc \div 256>>,
                                 <<"w", StackAt(Last.sp, 1), Last.pc % 256>> >>
       /\ log[3][1] = "w" /\ log[3][2] = StackAt(Last.sp, 2)
       /\ Bit(pushed, Break) = 0 /\ Bit(pushed, Reserved) = 1
       /\ SixFlags(pushed) = SixFlags(Last.status)
       /\ SubSeq(log, 4, 5) = << <<"r", vector, lo>>, <<"r", Wrap16(vector + 1), hi>> >>
       /\ pc = lo + 256 * hi
       /\ sp = Wrap8(Last.sp + 253)
       /\ status = SetBit(Last.status, InterruptDisable)
       /\ a = Last.a /\ x = Last.x /\ y = Last.y

C13_IrqMasked ==
    /\ Called("irq") =>
          IF Flag(Last.status, InterruptDisable)
          THEN Registers(Cur) = Registers(Last) /\ mem = Last.mem /\ log = << >>
          ELSE InterruptEffect(IRQ_BRK_VECTOR)
    /\ (Len(hist) = 2 /\ hist[1].op = "irq" /\ hist[2].op = "irq") =>
          Registers(Cur) = Registers(hist[2]) /\ mem = hist[2].mem /\ log = << >>

(* an irq() taken with SP = 1, then a second one that does nothing *)
C13_Witness ==
    /\ Len(hist) = 2 /\ hist[1].op = "irq" /\ hist[2].op = "irq"
    /\ ~Flag(hist[1].status, InterruptDisable) /\ Flag(hist[2].status, InterruptDisable)
    /\ hist[1].sp = 1 /\ sp = 254 /\ pc = hist[2].pc
    /\ Read(mem, 511) = SetBit(ClearBit(hist[1].status, Break), Reserved)

(* C14: nmi() runs the interrupt sequence whether interrupt-disable is set  *)
(* or clear: it pushes PC high, PC low and the status byte with the break   *)
(* bit clear, sets interrupt-disable and loads PC little-endian from        *)
(* 0xFFFA/0xFFFB.                                                           *)
C14_NmiAlways == Called("nmi") => InterruptEffect(NMI_VECTOR)

(* an nmi() delivered while interrupt-disable is set, right after an irq() *)
(* that was taken                                                          *)
C14_Witness ==
    /\ Len(hist) = 2 /\ hist[1].op = "irq" /\ hist[2].op = "nmi"
    /\ ~Flag(hist[1].status, InterruptDisable) /\ Flag(hist[2].status, InterruptDisable)
    /\ sp = Wrap8(hist[1].sp + 250)
    /\ pc = Read(mem, NMI_VECTOR) + 256 * Read(mem, NMI_VECTOR + 1)
    /\ pc # Read(mem, NMI_VECTOR + 1) + 256 * Read(mem, NMI_VECTOR)

(* C15: reset() sets interrupt-disable, decrements SP by 3 (mod 256)        *)
(* without any bus write, and loads PC little-endian from 0xFFFC/0xFFFD;    *)
(* A, X, Y and the other five flags are unchanged.                          *)
C15_ResetEffect ==
    Called("reset") =>
        /\ status = SetBit(Last.status, InterruptDisable)
        /\ sp = Wrap8(Last.sp + 253)
        /\ LogWrites = << >> /\ mem = Last.mem
        /\ pc = Read(mem, RESET_VECTOR) + 256 * Read(mem, Wrap16(RESET_VECTOR + 1))
        /\ a = Last.a /\ x = Last.x /\ y = Last.y

(* C16: get_status(brk) places carry, zero, interrupt-disable, decimal,     *)
(* brk, 1, overflow, negative in bits 0..7; set_status(get_status(brk))     *)
(* leaves all six flags unchanged; and for every byte v, get_status(brk)    *)
(* after set_status(v) is v with bit 4 replaced by brk and bit 5 set.       *)
RegCalled(op) == Len(log) = 1 /\ log[1][1] = op

(* the call before the last one *)
RegCalledBefore(op) == Len(hist) = 1 /\ Len(hist[1].log) = 1 /\ hist[1].log[1][1] = op

FlagsOf(r) ==
    <<BoolBit(r.carry), BoolBit(r.zero), BoolBit(r.interrupt_disable),
      BoolBit(r.decimal), BoolBit(r.overflow), BoolBit(r.negative)>>

C16_StatusRoundTrip ==
    /\ RegCalled("get_status") =>
          LET brk == log[1][2]
              ret == log[1][3]
          IN /\ <<Bit(ret, 0), Bit(ret, 1), Bit(ret, 2), Bit(ret, 3),
                  Bit(ret, 4), Bit(ret, 5), Bit(ret, 6), Bit(ret, 7)>>
                   = <<BoolBit(reg_state.carry), BoolBit(reg_state.zero),
                       BoolBit(reg_state.interrupt_disable), BoolBit(reg_state.decimal),
                       BoolBit(brk), 1, BoolBit(reg_state.overflow), BoolBit(reg_state.negative)>>
             /\ reg_state = hist[1].reg
             /\ RegCalledBefore("set_status") =>
                   ret = ClearBit(ClearBit(hist[1].log[1][2], Break), Reserved)
                            + BoolBit(brk) * Pow2(Break) + Pow2(Reserved)
    /\ (RegCalled("set_status") /\ RegCalledBefore("get_status")
           /\ log[1][2] = hist[1].log[1][3]) =>
          FlagsOf(reg_state) = FlagsOf(hist[1].reg)

(* set_status(0x10) then get_status(false): bit 4 of the byte is dropped   *)
(* and bit 5 appears                                                       *)
C16_Witness ==
    /\ RegCalled("get_status") /\ RegCalledBefore("set_status")
    /\ hist[1].log[1][2] = 16 /\ log[1][2] = FALSE /\ log[1][3] = 32

(* C17: after any sequence of new/reset/step calls, PLP and RTI popping     *)
(* bytes with bit 4 set or bit 5 clear included, the stored processor       *)
(* status never has the break bit set and always has the reserved bit set.  *)
C17_NoBreakPersisted == Bit(status, Break) = 0 /\ Bit(status, Reserved) = 1

(* a PLP that popped a byte with break set and reserved clear *)
C17_Witness ==
    /\ Stepped /\ Last.opcode = PLP /\ Len(log) = 2
    /\ Bit(log[2][3], Break) = 1 /\ Bit(log[2][3], Reserved) = 0
    /\ Bit(status, Break) = 0 /\ Bit(status, Reserved) = 1
    /\ SixFlags(status) = SixFlags(log[2][3])

(* C18: a store instruction (STA, STX, STY in every addressing mode) writes *)
(* the register's value to the effective address and changes nothing else:  *)
(* the six flags, A, X, Y and SP are unchanged and no other memory byte is  *)
(* written.                                                                 *)
StaOps == {129, 133, 141, 145, 149, 153, 157}
StxOps == {134, 142, 150}
StyOps == {132, 140, 148}
StoreOps == StaOps \cup StxOps \cup StyOps

(* the effective address of the instruction at snap.pc, by addressing mode *)
Operand(snap, k) == Read(snap.mem, Wrap16(snap.pc + k))

Pointer(snap, p) == Read(snap.mem, p) + 256 * Read(snap.mem, Wrap16(p + 1))

EffectiveAddress(snap, mode) ==
    LET d == Operand(snap, 1)
        abs == Operand(snap, 1) + 256 * Operand(snap, 2)
    IN CASE mode = "d" -> d
         [] mode = "d,x" -> Wrap8(d + snap.x)
         [] mode = "d,y" -> Wrap8(d + snap.y)
         [] mode = "a" -> abs
         [] mode = "a,x" -> Wrap16(abs + snap.x)
         [] mode = "a,y" -> Wrap16(abs + snap.y)
         [] mode = "(d,x)" -> Pointer(snap, Wrap8(d + snap.x))
         [] mode = "(d),y" -> Wrap16(Pointer(snap, d) + snap.y)

StoreMode(op) ==
    CASE op \in {132, 133, 134} -> "d"
      [] op \in {148, 149} -> "d,x"
      [] op = 150 -> "d,y"
      [] op \in {140, 141, 142} -> "a"
      [] op = 157 -> "a,x"
      [] op = 153 -> "a,y"
      [] op = 129 -> "(d,x)"
      [] op = 145 -> "(d),y"

StoreValue(snap) ==
    CASE snap.opcode \in StaOps -> snap.a
      [] snap.opcode \in StxOps -> snap.x
      [] snap.opcode \in StyOps -> snap.y

C18_StoreFrame ==
    (Stepped /\ Last.opcode \in StoreOps) =>
        LET addr == EffectiveAddress(Last, StoreMode(Last.opcode))
        IN /\ LogWrites = << <<"w", addr, StoreValue(Last)>> >>
           /\ log[Len(log)][1] = "w"
           /\ mem = Write(Last.mem, addr, StoreValue(Last))
           /\ status = Last.status
           /\ SameRegisters(Last)

(* STA (d),y storing 0x99 with the negative flag clear: the flag stays     *)
(* clear                                                                   *)
C18_Witness ==
    /\ Stepped /\ Last.opcode = 145 /\ Last.a = 153 /\ Last.y = 255
    /\ ~Flag(status, Negative) /\ status = Last.status
    /\ LogWrites = << <<"w", Wrap16(Pointer(Last, Operand(Last, 1)) + 255), 153>> >>

(* C19 as stated: every load (LDA, LDX, LDY, PLA) and every transfer (TAX,  *)
(* TAY, TXA, TYA, TSX, TXS) copies the source value into the destination    *)
(* and sets negative and zero from the value transferred, leaving carry,    *)
(* overflow, decimal and interrupt-disable unchanged.                       *)
LdaOps == {161, 165, 169, 173, 177, 181, 185, 189}
LdxOps == {162, 166, 174, 182, 190}
LdyOps == {160, 164, 172, 180, 188}
TAX == 170
TAY == 168
TXA == 138
TYA == 152
TSX == 186
TXS == 154
LoadOps == LdaOps \cup LdxOps \cup LdyOps
MoveOps == LoadOps \cup {PLA, TAX, TAY, TXA, TYA, TSX, TXS}

LoadMode(op) ==
    CASE op \in {160, 162, 169} -> "#i"
      [] op \in {164, 165, 166} -> "d"
      [] op \in {180, 181} -> "d,x"
      [] op = 182 -> "d,y"
      [] op \in {172, 173, 174} -> "a"
      [] op \in {188, 189} -> "a,x"
      [] op \in {185, 190} -> "a,y"
      [] op = 161 -> "(d,x)"
      [] op = 177 -> "(d),y"

LoadAddress(snap) ==
    IF LoadMode(snap.opcode) = "#i" THEN Wrap16(snap.pc + 1)
    ELSE EffectiveAddress(snap, LoadMode(snap.opcode))

(* the value the instruction moves, from the state before it *)
MoveSource(snap) ==
    CASE snap.opcode \in LoadOps -> Read(snap.mem, LoadAddress(snap))
      [] snap.opcode = PLA -> Read(snap.mem, StackAt(snap.sp, -1))
      [] snap.opcode \in {TAX, TAY} -> snap.a
      [] snap.opcode \in {TXA, TXS} -> snap.x
      [] snap.opcode = TYA -> snap.y
      [] snap.opcode = TSX -> snap.sp

MoveDestination(op) ==
    CASE op \in LdaOps \cup {PLA, TXA, TYA} -> a
      [] op \in LdxOps \cup {TAX, TSX} -> x
      [] op \in LdyOps \cup {TAY} -> y
      [] op = TXS -> sp

NzFrom(value) ==
    /\ Flag(status, Negative) <=> value >= 128
    /\ Flag(status, Zero) <=> value = 0
    /\ \A f \in {Carry, Overflow, Decimal, InterruptDisable} :
          Flag(status, f) <=> Flag(Last.status, f)

C19_MoveSetsNz ==
    (Stepped /\ Last.opcode \in MoveOps) =>
        /\ MoveDestination(Last.opcode) = MoveSource(Last)
        /\ NzFrom(MoveSource(Last))

(* C19 amended: the loads and TAX, TAY, TXA, TYA, TSX copy the source into  *)
(* the destination and set negative and zero from it, leaving carry,        *)
(* overflow, decimal and interrupt-disable unchanged; TXS copies X into SP  *)
(* and leaves all six flags unchanged.                                      *)
C19_MoveSetsNzExceptTxs ==
    (Stepped /\ Last.opcode \in MoveOps) =>
        /\ MoveDestination(Last.opcode) = MoveSource(Last)
        /\ IF Last.opcode = TXS THEN status = Last.status
           ELSE NzFrom(MoveSource(Last))

(* TXS moving 0 into SP while the zero flag is clear, and staying clear *)
C19_Witness ==
    /\ Stepped /\ Last.opcode = TXS /\ Last.x = 0 /\ Last.sp = 255 /\ sp = 0
    /\ ~Flag(Last.status, Zero) /\ ~Flag(status, Zero)

(* C21: each of the 8 branch opcodes is taken exactly when its flag has its *)
(* polarity; a taken branch at p with operand byte d sets PC to             *)
(* (p + 2 + signed8(d)) mod 65536, an untaken one to p + 2; in both cases   *)
(* registers, flags, SP and memory are unchanged.                           *)
Signed8(d) == IF d >= 128 THEN d - 256 ELSE d

C21_BranchTarget ==
    (Stepped /\ Last.opcode \in DocRelative) =>
        /\ pc = IF BranchTaken(Last.opcode, Last.status)
                THEN (Last.pc + 2 + Signed8(Operand(Last, 1)) + 65536) % 65536
                ELSE Wrap16(Last.pc + 2)
        /\ SameRegisters(Last)
        /\ status = Last.status
        /\ mem = Last.mem
        /\ LogWrites = << >>

(* BMI taken backwards from 0x0200 with offset 0x80 *)
C21_Witness ==
    /\ Stepped /\ Last.opcode = 48 /\ Flag(Last.status, Negative)
    /\ Last.pc = 512 /\ Operand(Last, 1) = 128 /\ pc = 386

(* C22: for zero-page,X and zero-page,Y addressing the effective address is *)
(* (d + i) mod 256 for every operand byte d and index i, so every access    *)
(* made through these modes lies in 0x0000..0x00FF.                         *)
ZeroPageYOps == {150, 182}

C22_ZeroPageIndexedWraps ==
    (Stepped /\ Last.opcode \in DocZeroPageIndexed) =>
        LET d == Operand(Last, 1)
            i == IF Last.opcode \in ZeroPageYOps THEN Last.y ELSE Last.x
        IN /\ Len(log) >= 3
           /\ \A k \in 3..Len(log) : log[k][2] = (d + i) % 256 /\ log[k][2] <= 255

(* STX d,y with d = 0xFF and Y = 2: the store goes to 0x0001, not 0x0101 *)
C22_Witness ==
    /\ Stepped /\ Last.opcode = 150 /\ Operand(Last, 1) = 255 /\ Last.y = 2
    /\ LogWrites = << <<"w", 1, Last.x>> >>
    /\ Read(mem, 257) = Read(Last.mem, 257)

(* C23: for absolute,X / absolute,Y and (zero-page),Y addressing the        *)
(* effective address is the 16-bit base (the little-endian operand, or the  *)
(* little-endian pointer read at the zero-page operand address) plus the    *)
(* index register, mod 65536; a base of 0xFFFF with index 1 yields 0x0000.  *)
AbsoluteYOps == {25, 57, 89, 121, 153, 185, 190, 217, 249}

C23_IndexedWraps16 ==
    /\ (Stepped /\ Last.opcode \in DocAbsoluteIndexed) =>
          LET base == Operand(Last, 1) + 256 * Operand(Last, 2)
              i == IF Last.opcode \in AbsoluteYOps THEN Last.y ELSE Last.x
          IN /\ Len(log) >= 4
             /\ \A k \in 4..Len(log) : log[k][2] = (base + i) % 65536
    /\ (Stepped /\ Last.opcode \in DocIndirectIndexed) =>
          LET d == Operand(Last, 1)
              base == Read(Last.mem, d) + 256 * Read(Last.mem, d + 1)
          IN /\ Len(log) >= 5
             /\ log[3] = <<"r", d, Read(Last.mem, d)>>
             /\ log[4] = <<"r", d + 1, Read(Last.mem, d + 1)>>
             /\ \A k \in 5..Len(log) : log[k][2] = (base + Last.y) % 65536

(* STA (d),y through a pointer holding 0xFFFF with Y = 1: the store goes   *)
(* to 0x0000                                                               *)
C23_Witness ==
    /\ Stepped /\ Last.opcode = 145 /\ Last.y = 1
    /\ Pointer(Last, Operand(Last, 1)) = 65535
    /\ LogWrites = << <<"w", 0, Last.a>> >>

(* C24: for every pointer p, JMP (p) sets PC to                             *)
(* mem[p] + 256 * mem[(p + 1) mod 65536], also when the low byte of p is    *)
(* 0xFF: the high byte is read from the next page.                          *)
JMP_INDIRECT == 108

C24_IndirectJmpCrossesPage ==
    (Stepped /\ Last.opcode = JMP_INDIRECT) =>
        LET p == Operand(Last, 1) + 256 * Operand(Last, 2)
            lo == Read(Last.mem, p)
            hi == Read(Last.mem, (p + 1) % 65536)
        IN /\ pc = lo + 256 * hi
           /\ SubSeq(log, 4, 5) = << <<"r", p, lo>>, <<"r", (p + 1) % 65536, hi>> >>
           /\ Len(log) = 5

(* JMP (0x01FF): the high byte comes from 0x0200, not from 0x0100 *)
C24_Witness ==
    /\ Stepped /\ Last.opcode = JMP_INDIRECT
    /\ Operand(Last, 1) = 255 /\ Operand(Last, 2) = 1
    /\ pc = Read(mem, 511) + 256 * Read(mem, 512)
    /\ Read(mem, 512) # Read(mem, 256)

(* C25: with the decimal flag set, for valid BCD bytes A and M and carry c, *)
(* ADC leaves A = BCD((dec(A) + dec(M) + c) mod 100) and the carry flag     *)
(* equal to (dec(A) + dec(M) + c > 99).                                     *)
DecimalOp(op) ==
    /\ Stepped /\ Last.opcode = op /\ Flag(Last.status, Decimal)
    /\ IsBcd(Last.a) /\ IsBcd(Operand(Last, 1))

C25_DecimalAdc ==
    DecimalOp(ADC_IMM) =>
        LET sum == FromBcd(Last.a) + FromBcd(Operand(Last, 1)) + Bit(Last.status, Carry)
        IN /\ a = ToBcd(sum % 100)
           /\ Flag(status, Carry) <=> sum > 99

(* 58 + 46 + 1 = 105: the accumulator holds 05 and the carry is set *)
C25_Witness ==
    /\ DecimalOp(ADC_IMM) /\ Last.a = 88 /\ Operand(Last, 1) = 70
    /\ Flag(Last.status, Carry) /\ a = 5 /\ Flag(status, Carry)

(* C26: with the decimal flag set, for valid BCD bytes A and M and carry c, *)
(* SBC leaves A = BCD((dec(A) - dec(M) - (1 - c)) mod 100) and the carry    *)
(* flag set exactly when dec(A) - dec(M) - (1 - c) >= 0.                    *)
C26_DecimalSbc ==
    DecimalOp(SBC_IMM) =>
        LET diff == FromBcd(Last.a) - FromBcd(Operand(Last, 1))
                       - (1 - Bit(Last.status, Carry))
        IN /\ a = ToBcd((diff + 100) % 100)
           /\ Flag(status, Carry) <=> diff >= 0

(* 12 - 34 with the carry set: the accumulator holds 78 and the carry is   *)
(* clear                                                                   *)
C26_Witness ==
    /\ DecimalOp(SBC_IMM) /\ Last.a = 18 /\ Operand(Last, 1) = 52
    /\ Flag(Last.status, Carry) /\ a = 120 /\ ~Flag(status, Carry)

(* C27: in ADC and SBC the negative and zero flags reflect the truncated    *)
(* binary sum (A + M' + C) mod 256, also in decimal mode: for the same A,   *)
(* operand and carry the N and Z flags are the same whether the decimal     *)
(* flag is set or clear.                                                    *)
FlipDecimal(st) ==
    IF Flag(st, Decimal) THEN ClearBit(st, Decimal) ELSE SetBit(st, Decimal)

C27_NzFromBinarySum ==
    (Stepped /\ Last.opcode \in AdcOps \cup SbcOps) =>
        LET sum == (Last.a + AluOperand + Bit(Last.status, Carry)) % 256
            before == Rerun(Last, Last.pc, Last.opcode)
            other == step([before EXCEPT !.status = FlipDecimal(Last.status)])
        IN /\ Flag(status, Negative) <=> sum >= 128
           /\ Flag(status, Zero) <=> sum = 0
           /\ Bit(other.status, Negative) = Bit(status, Negative)
           /\ Bit(other.status, Zero) = Bit(status, Zero)

(* decimal 99 + 01: the accumulator ends as 00 while the flags describe    *)
(* the binary sum 0x9A                                                     *)
C27_Witness ==
    /\ Stepped /\ Last.opcode = ADC_IMM /\ Flag(Last.status, Decimal)
    /\ Last.a = 153 /\ Operand(Last, 1) = 1 /\ ~Flag(Last.status, Carry)
    /\ a = 0 /\ ~Flag(status, Zero) /\ Flag(status, Negative)

(* C28: every bus access made by a stack push or pop (PHA, PHP, PLA, PLP,   *)
(* JSR, RTS, BRK, RTI, irq, nmi) is at 0x0100 + SP, inside 0x0100..0x01FF,  *)
(* for every SP; a push writes at 0x0100 + SP and then decrements SP, a pop *)
(* increments SP and then reads at 0x0100 + SP.                             *)
Pushes ==
    IF Last.op = "step"
    THEN CASE Last.opcode \in {PHA, PHP} -> 1
           [] Last.opcode = JSR -> 2
           [] Last.opcode = BRK -> 3
           [] OTHER -> 0
    ELSE IF Last.op = "nmi" \/ (Last.op = "irq" /\ ~Flag(Last.status, InterruptDisable))
    THEN 3 ELSE 0

Pops ==
    IF Last.op = "step"
    THEN CASE Last.opcode \in {PLA, PLP} -> 1
           [] Last.opcode = RTS -> 2
           [] Last.opcode = RTI -> 3
           [] OTHER -> 0
    ELSE 0

InStackPage(addr) == addr >= 256 /\ addr <= 511

C28_StackPage ==
    /\ (Len(hist) > 0 /\ Pushes > 0) =>
          /\ Len(LogWrites) = Pushes
          /\ \A k \in 1..Pushes :
                /\ LogWrites[k][2] = STACK_START + ((Last.sp + 256 - (k - 1)) % 256)
                /\ InStackPage(LogWrites[k][2])
          /\ sp = (Last.sp + 256 - Pushes) % 256
    /\ (Len(hist) > 0 /\ Pops > 0) =>
          /\ Len(log) = 1 + Pops /\ LogWrites = << >>
          /\ \A k \in 1..Pops :
                /\ log[1 + k][2] = STACK_START + ((Last.sp + k) % 256)
                /\ InStackPage(log[1 + k][2])
          /\ sp = (Last.sp + Pops) % 256

(* an nmi() with SP = 1: the pushes go to 0x0101, 0x0100 and 0x01FF *)
C28_Witness ==
    /\ Called("nmi") /\ Last.sp = 1 /\ sp = 254
    /\ <<LogWrites[1][2], LogWrites[2][2], LogWrites[3][2]>> = <<257, 256, 511>>

(* ---------------- read-modify-write instructions ---------------- *)
AslOps == {6, 22, 14, 30}
RolOps == {38, 54, 46, 62}
LsrOps == {70, 86, 78, 94}
RorOps == {102, 118, 110, 126}
DecOps == {198, 214, 206, 222}
IncOps == {230, 246, 238, 254}
RmwOps == AslOps \cup RolOps \cup LsrOps \cup RorOps \cup DecOps \cup IncOps
RmwAccumulatorOps == {10, 42, 74, 106}

RmwMode(op) ==
    CASE op \in {6, 38, 70, 102, 198, 230} -> "d"
      [] op \in {22, 54, 86, 118, 214, 246} -> "d,x"
      [] op \in {14, 46, 78, 110, 206, 238} -> "a"
      [] op \in {30, 62, 94, 126, 222, 254} -> "a,x"

RmwOperandBytes(op) == IF RmwMode(op) \in {"d", "d,x"} THEN 1 ELSE 2

(* the byte written back, from the byte read and the carry flag before the call *)
RmwResult(op, n, carry) ==
    CASE op \in AslOps -> (n * 2) % 256
      [] op \in RolOps -> ((n * 2) % 256) + carry
      [] op \in LsrOps -> n \div 2
      [] op \in RorOps -> (n \div 2) + (128 * carry)
      [] op \in DecOps -> (n + 255) % 256
      [] op \in IncOps -> (n + 1) % 256

(* C29: a read-modify-write instruction on memory makes, after the opcode and
   operand fetches, exactly one read of the effective address and then exactly
   one write of the result to the same address, nothing else; the accumulator
   forms access the bus only for the opcode fetch *)
C29_ReadModifyWrite ==
    /\ (Stepped /\ Last.opcode \in RmwOps) =>
          LET op == Last.opcode
              n == 1 + RmwOperandBytes(op)
              ea == EffectiveAddress(Last, RmwMode(op))
              old == Read(Last.mem, ea)
              result == RmwResult(op, old, Bit(Last.status, Carry))
          IN /\ Len(log) = n + 2
             /\ \A k \in 1..n :
                   log[k] = <<"r", Wrap16(Last.pc + k - 1), Operand(Last, k - 1)>>
             /\ log[n + 1] = <<"r", ea, old>>
             /\ log[n + 2] = <<"w", ea, result>>
             /\ mem = Write(Last.mem, ea, result)
    /\ (Stepped /\ Last.opcode \in RmwAccumulatorOps) =>
          /\ log = << <<"r", Last.pc, Last.opcode>> >>
          /\ mem = Last.mem

(* INC a,x across a page boundary: five accesses, the last two at the
   effective address *)
C29_Witness ==
    /\ Stepped /\ Last.opcode = 254 /\ Last.x = 255
    /\ EffectiveAddress(Last, "a,x") \div 256 # Operand(Last, 2)
    /\ Len(log) = 5
    /\ log[4][1] = "r" /\ log[5][1] = "w" /\ log[4][2] = log[5][2]
    /\ log[5][3] = (log[4][3] + 1) % 256

(* ---------------- compare instructions ---------------- *)
CompareOps == CmpOps \cup CpxOps \cup CpyOps

CompareMode(op) ==
    CASE op \in {201, 224, 192} -> "#"
      [] op \in {197, 228, 196} -> "d"
      [] op \in {205, 236, 204} -> "a"
      [] op = 213 -> "d,x"
      [] op = 221 -> "a,x"
      [] op = 217 -> "a,y"
      [] op = 193 -> "(d,x)"
      [] op = 209 -> "(d),y"

(* the register compared and the operand byte, before the call *)
CompareRegister(snap) ==
    CASE snap.opcode \in CmpOps -> snap.a
      [] snap.opcode \in CpxOps -> snap.x
      [] snap.opcode \in CpyOps -> snap.y

CompareOperand(snap) ==
    IF CompareMode(snap.opcode) = "#"
    THEN Operand(snap, 1)
    ELSE Read(snap.mem, EffectiveAddress(snap, CompareMode(snap.opcode)))

(* C30: CMP, CPX, CPY with register r and operand m set carry to r >= m, zero
   to r = m and negative to bit 7 of (r - m) mod 256, and leave A, X, Y, SP,
   the overflow, decimal and interrupt-disable flags and memory unchanged *)
C30_Compare ==
    (Stepped /\ Last.opcode \in CompareOps) =>
        LET r == CompareRegister(Last)
            m == CompareOperand(Last)
        IN /\ Flag(status, Carry) <=> (r >= m)
           /\ Flag(status, Zero) <=> (r = m)
           /\ Flag(status, Negative) <=> (((r + 256 - m) % 256) >= 128)
           /\ SameRegisters(Last)
           /\ \A f \in {Overflow, Decimal, InterruptDisable} :
                 Bit(status, f) = Bit(Last.status, f)
           /\ mem = Last.mem

(* CPY #255 with Y = 0: below the operand, yet the difference 1 is positive;
   CPX with X equal to the operand is the other edge *)
C30_Witness ==
    /\ Stepped /\ Last.opcode = 192 /\ Last.y = 0 /\ Operand(Last, 1) = 255
    /\ ~Flag(status, Carry) /\ ~Flag(status, Zero) /\ ~Flag(status, Negative)
    /\ Flag(Last.status, Carry) /\ Flag(Last.status, Negative)

(* ---------------- the bus contract ---------------- *)
BusCalled(op) == Len(hist) = 1 /\ hist[1].op = op

(* C31: CpuMemMap::read and CpuMemMap::write return without failure for every
   address and every cartridge that INesCart::parse accepts, one with no
   PRG-ROM bank included *)
C31_BusTotal ==
    ((BusCalled("read") \/ BusCalled("write")) /\ hist[1].bus.kind = "CpuMemMap")
        => ~panic

(* the calls that can fail are those at 0x8000 and above on a cartridge
   with no PRG-ROM bank *)
C31_FailsOnlyWithoutPrg ==
    ((BusCalled("read") \/ BusCalled("write")) /\ hist[1].bus.kind = "CpuMemMap")
        => (panic <=> (hist[1].addr >= 32768 /\ hist[1].bus.cart.prg_rom.len = 0))

(* the read just made left the bus as it was and, when the call before it
   was a read of the same address, returned the same byte *)
ReadRepeated ==
    /\ bus = hist[1].bus
    /\ (/\ hist[1].log # << >>
        /\ hist[1].log[1][1] = "read"
        /\ hist[1].log[1][2] = hist[1].addr)
          => log[1][3] = hist[1].log[1][3]

(* C32: for CpuMemMap and EhBasicBus and every address, read(addr) leaves the
   bus state unchanged, so two consecutive reads of one address with no write
   between them return the same byte *)
C32_ReadRepeatable == BusCalled("read") => ReadRepeated

(* every read other than EhBasicBus::read(IO_READ_ADDR) is repeatable *)
C32_RepeatableExceptInput ==
    (BusCalled("read")
        /\ ~(hist[1].bus.kind = "EhBasicBus" /\ hist[1].addr = IO_READ_ADDR))
        => ReadRepeated

====
